---- MODULE Spec2Model ----
(***************************************************************************)
(* A model of the XUnity.LLMTranslate translation pipeline:                *)
(*   core/api_client.py  APIClient (translate_batch, reply extraction,     *)
(*                       test_connection, get_model_list)                  *)
(*   core/server.py      TranslationHandler, its worker pool, ServerManager*)
(*   ui/app.py           toggle_server, on_close                           *)
(* Text is modelled character by character: a string is a sequence of      *)
(* one-character strings.                                                  *)
(***************************************************************************)
EXTENDS Integers, Sequences, FiniteSets, TLC

(***************************************************************************)
(* Characters and the string methods the code uses                         *)
(***************************************************************************)
QUOTE == "\""
NL == "\n"
\* the backquote character, written by name
TICK == "BACKQUOTE"
FENCE == <<TICK, TICK, TICK>>
Digits == {"0", "1", "2", "3", "4", "5", "6", "7", "8", "9"}

\* str.isspace() / the regex class \s, on the characters of the model
IsSpace(c) == c \in {" ", NL}

RECURSIVE lstrip(_)
lstrip(s) ==
  IF s = <<>> THEN s
  ELSE IF IsSpace(Head(s)) THEN lstrip(Tail(s)) ELSE s

RECURSIVE rstrip(_)
rstrip(s) ==
  IF s = <<>> THEN s
  ELSE IF IsSpace(s[Len(s)]) THEN rstrip(SubSeq(s, 1, Len(s) - 1)) ELSE s

\* str.strip()
strip(s) == rstrip(lstrip(s))

\* s[i:] and s[:n] of Python, 1-based here
From(s, i) == SubSeq(s, i, Len(s))
Upto(s, n) == SubSeq(s, 1, n)

startswith(s, p) == Len(s) >= Len(p) /\ SubSeq(s, 1, Len(p)) = p
endswith(s, p) == Len(s) >= Len(p) /\ SubSeq(s, Len(s) - Len(p) + 1, Len(s)) = p

\* str.find(c): the first index of character c, 0 when there is none (Python: -1)
find(s, c) ==
  IF \E i \in 1..Len(s) : s[i] = c
  THEN CHOOSE i \in 1..Len(s) : s[i] = c /\ \A j \in 1..(i - 1) : s[j] # c
  ELSE 0

\* str.rfind(c): the last index of character c, 0 when there is none
rfind(s, c) ==
  IF \E i \in 1..Len(s) : s[i] = c
  THEN CHOOSE i \in 1..Len(s) : s[i] = c /\ \A j \in (i + 1)..Len(s) : s[j] # c
  ELSE 0

\* str.splitlines(), on texts whose only line break is "\n"
RECURSIVE splitlines(_)
splitlines(s) ==
  LET SplitAt(k) ==
        IF k = 0 THEN <<s>> ELSE <<Upto(s, k - 1)>> \o splitlines(From(s, k + 1))
  IN IF s = <<>> THEN <<>> ELSE SplitAt(find(s, NL))

RECURSIVE Concat(_)
Concat(ss) == IF ss = <<>> THEN <<>> ELSE Head(ss) \o Concat(Tail(ss))

RECURSIVE SelectNonBlank(_)
SelectNonBlank(ls) ==
  IF ls = <<>> THEN <<>>
  ELSE IF strip(Head(ls)) # <<>> THEN <<Head(ls)>> \o SelectNonBlank(Tail(ls))
       ELSE SelectNonBlank(Tail(ls))

(***************************************************************************)
(* json.loads and json.dumps, on texts made of the characters               *)
(*   [ ] { } , : quote digits letters space newline                        *)
(* (no escapes, signs, fractions or the literals true/false/null: the       *)
(* letters of the model cannot spell them).  A value is a record            *)
(*   [t: "str"|"num"|"arr"|"obj", s: characters, items: values, keys: names]*)
(***************************************************************************)
JStr(cs) == [t |-> "str", s |-> cs, items |-> <<>>, keys |-> <<>>]
JNum(cs) == [t |-> "num", s |-> cs, items |-> <<>>, keys |-> <<>>]
JArr(vs) == [t |-> "arr", s |-> <<>>, items |-> vs, keys |-> <<>>]
JObj(ks, vs) == [t |-> "obj", s |-> <<>>, items |-> vs, keys |-> ks]
JFail == [ok |-> FALSE, v |-> JStr(<<>>), next |-> 0]
JOk(v, n) == [ok |-> TRUE, v |-> v, next |-> n]

RECURSIVE skipws(_, _)
skipws(s, i) == IF i <= Len(s) /\ IsSpace(s[i]) THEN skipws(s, i + 1) ELSE i

RECURSIVE digitsEnd(_, _)
digitsEnd(s, i) == IF i <= Len(s) /\ s[i] \in Digits THEN digitsEnd(s, i + 1) ELSE i

\* a string literal whose opening quote is at i: up to the next quote; a raw
\* line break inside it is refused, as the strict decoder does
ParseString(s, i) ==
  LET Body(b, next) ==
        IF \E j \in 1..Len(b) : b[j] = NL THEN JFail ELSE JOk(JStr(b), next)
      End(k) == IF k = 0 THEN JFail ELSE Body(SubSeq(s, i + 1, i + k - 1), i + k + 1)
  IN End(find(From(s, i + 1), QUOTE))

\* a number starting at i: digits, no leading zero before another digit
ParseNumber(s, i) ==
  LET End(e) ==
        IF s[i] = "0" /\ e > i + 1 THEN JOk(JNum(<<"0">>), i + 1)
        ELSE JOk(JNum(SubSeq(s, i, e - 1)), e)
  IN End(digitsEnd(s, i))

RECURSIVE ParseValue(_, _)
RECURSIVE ParseElems(_, _, _)
RECURSIVE ParseMembers(_, _, _, _)

\* the elements of an array, the next value expected at i; acc holds those
\* read.  After a value: "]" ends the array, "," announces another value
ParseElems(s, i, acc) ==
  LET Sep(j, vs) ==
        IF j > Len(s) THEN JFail
        ELSE IF s[j] = "]" THEN JOk(JArr(vs), j + 1)
        ELSE IF s[j] = "," THEN ParseElems(s, j + 1, vs)
        ELSE JFail
      After(r) == IF ~r.ok THEN JFail ELSE Sep(skipws(s, r.next), Append(acc, r.v))
  IN After(ParseValue(s, i))

\* the members of an object, the next key expected at i: a string, ":", a
\* value, then "}" or ","
ParseMembers(s, i, ks, vs) ==
  LET Sep(e, ks2, vs2) ==
        IF e > Len(s) THEN JFail
        ELSE IF s[e] = "}" THEN JOk(JObj(ks2, vs2), e + 1)
        ELSE IF s[e] = "," THEN ParseMembers(s, e + 1, ks2, vs2)
        ELSE JFail
      After(r, ks2) ==
        IF ~r.ok THEN JFail ELSE Sep(skipws(s, r.next), ks2, Append(vs, r.v))
      Value(c, ks2) ==
        IF c > Len(s) \/ s[c] # ":" THEN JFail ELSE After(ParseValue(s, c + 1), ks2)
      Colon(k) ==
        IF ~k.ok THEN JFail ELSE Value(skipws(s, k.next), Append(ks, k.v.s))
      Key(j) ==
        IF j > Len(s) \/ s[j] # QUOTE THEN JFail ELSE Colon(ParseString(s, j))
  IN Key(skipws(s, i))

ParseValue(s, i) ==
  LET ArrayAt(k) ==
        IF k <= Len(s) /\ s[k] = "]" THEN JOk(JArr(<<>>), k + 1)
        ELSE ParseElems(s, k, <<>>)
      ObjectAt(k) ==
        IF k <= Len(s) /\ s[k] = "}" THEN JOk(JObj(<<>>, <<>>), k + 1)
        ELSE ParseMembers(s, k, <<>>, <<>>)
      At(j) ==
        IF j > Len(s) THEN JFail
        ELSE IF s[j] = QUOTE THEN ParseString(s, j)
        ELSE IF s[j] \in Digits THEN ParseNumber(s, j)
        ELSE IF s[j] = "[" THEN ArrayAt(skipws(s, j + 1))
        ELSE IF s[j] = "{" THEN ObjectAt(skipws(s, j + 1))
        ELSE JFail
  IN At(skipws(s, i))

\* json.loads(s): one value, then nothing but whitespace; ok = FALSE stands
\* for JSONDecodeError
json_loads(s) ==
  LET End(r) == IF r.ok /\ skipws(s, r.next) > Len(s) THEN r ELSE JFail
  IN End(ParseValue(s, 1))

\* dict.get(name): the value of the last member called name (a later
\* duplicate key overwrites an earlier one); found = FALSE stands for None
dict_get(obj, name) ==
  LET hits == {i \in 1..Len(obj.keys) : obj.keys[i] = name} IN
  IF hits = {} THEN [found |-> FALSE, v |-> JStr(<<>>)]
  ELSE [found |-> TRUE,
        v |-> obj.items[CHOOSE i \in hits : \A j \in hits : j <= i]]

\* list(dict.values()): one value per distinct key, in first-insertion order,
\* each key holding its last value
dict_values(obj) ==
  LET firsts == {i \in 1..Len(obj.keys) :
                   \A j \in 1..(i - 1) : obj.keys[j] # obj.keys[i]}
      F[i \in 0..Len(obj.keys)] ==
        IF i = 0 THEN <<>>
        ELSE IF i \in firsts THEN Append(F[i - 1], dict_get(obj, obj.keys[i]).v)
        ELSE F[i - 1]
  IN F[Len(obj.keys)]

\* the distinct keys of an object, in first-insertion order
dict_keys(obj) ==
  LET firsts == {i \in 1..Len(obj.keys) :
                   \A j \in 1..(i - 1) : obj.keys[j] # obj.keys[i]}
      F[i \in 0..Len(obj.keys)] ==
        IF i = 0 THEN <<>>
        ELSE IF i \in firsts THEN Append(F[i - 1], obj.keys[i])
        ELSE F[i - 1]
  IN F[Len(obj.keys)]

RECURSIVE json_dumps(_)
RECURSIVE DumpItems(_)
RECURSIVE DumpMembers(_, _)
DumpItems(vs) ==
  IF vs = <<>> THEN <<>>
  ELSE IF Len(vs) = 1 THEN json_dumps(vs[1])
  ELSE json_dumps(vs[1]) \o <<",", " ">> \o DumpItems(Tail(vs))
DumpMembers(ks, vs) ==
  IF ks = <<>> THEN <<>>
  ELSE LET one == <<QUOTE>> \o ks[1] \o <<QUOTE, ":", " ">> \o json_dumps(vs[1]) IN
       IF Len(ks) = 1 THEN one
       ELSE one \o <<",", " ">> \o DumpMembers(Tail(ks), Tail(vs))
\* json.dumps(v, ensure_ascii=False)
json_dumps(v) ==
  IF v.t = "str" THEN <<QUOTE>> \o v.s \o <<QUOTE>>
  ELSE IF v.t = "num" THEN v.s
  ELSE IF v.t = "arr" THEN <<"[">> \o DumpItems(v.items) \o <<"]">>
  ELSE <<"{">> \o DumpMembers(dict_keys(v), dict_values(v)) \o <<"}">>

(***************************************************************************)
(* core/character_limiter.py: the character limiter.  The allowed-glyph    *)
(* file and the pinyin library are data outside the program text; the model *)
(* carries a sample of each class of character they distinguish.            *)
(***************************************************************************)
\* string.printable, on the characters of the model: every character that
\* is not one of the named non-ASCII samples below
MarkGlyphs == <<"U+5185", "U+5BB9", "U+8FC7", "U+957F", "U+5DF2", "U+622A", "U+65AD">>
NonAscii == {"U+4F60", "U+597D", "U+59B3", "U+2605", "U+3000"}
              \cup {MarkGlyphs[i] : i \in 1..Len(MarkGlyphs)}
\* _load_allowed_chars: the glyphs of the allowed file, in file order
allowed_chars ==
  <<<<"U+4F60">>, <<"U+597D">>>> \o [i \in 1..Len(MarkGlyphs) |-> <<MarkGlyphs[i]>>]
base_allowed(ch) == ch \notin NonAscii \/ \E i \in 1..Len(allowed_chars) : allowed_chars[i] = <<ch>>

\* _generate_pinyin_keys: the tone-marked and the toneless key of a glyph,
\* duplicates removed; a glyph without a reading is its own key
_generate_pinyin_keys(ch) ==
  IF ch \in {"U+4F60", "U+59B3"} THEN <<"ni3", "ni">>
  ELSE IF ch = "U+597D" THEN <<"hao3", "hao">>
  ELSE <<ch>>

\* _build_pinyin_index: key -> the allowed glyphs indexed under it, in file order
_pinyin_to_chars(key) ==
  LET F[i \in 0..Len(allowed_chars)] ==
        IF i = 0 THEN <<>>
        ELSE LET g == allowed_chars[i][1]
                 ks == _generate_pinyin_keys(g) IN
             IF \E k \in 1..Len(ks) : ks[k] = key THEN Append(F[i - 1], g)
             ELSE F[i - 1]
  IN F[Len(allowed_chars)]

\* a variant of _find_replacement that answers a glyph without an allowed
\* homophone with a glyph that is not allowed either
FindReplacementChained(ch) ==
  LET keys == _generate_pinyin_keys(ch) IN
  IF \A k \in 1..Len(keys) : _pinyin_to_chars(keys[k]) = <<>> THEN "U+59B3"
  ELSE _pinyin_to_chars(keys[CHOOSE k \in 1..Len(keys) : _pinyin_to_chars(keys[k]) # <<>>])[1]

\* _find_replacement: the first allowed glyph under the first key that has one
_find_replacement(ch) ==
  LET keys == _generate_pinyin_keys(ch)
      hit == {k \in 1..Len(keys) : _pinyin_to_chars(keys[k]) # <<>>} IN
  IF hit = {} THEN ch
  ELSE _pinyin_to_chars(keys[CHOOSE k \in hit : \A j \in hit : k <= j])[1]

\* a variant of _normalize_char without the whitespace rule of lines 65-66
NormalizeCharNoSpace(ch) ==
  IF base_allowed(ch) THEN ch ELSE _find_replacement(ch)

_normalize_char(ch) ==
  IF base_allowed(ch) THEN ch
  ELSE IF ch = "U+3000" THEN " "
  ELSE _find_replacement(ch)

\* CharacterLimiter.normalize_text / normalize_text (limit_characters)
normalize_text(text) == [i \in 1..Len(text) |-> _normalize_char(text[i])]

(***************************************************************************)
(* core/api_client.py: cleaning and extracting the model's reply           *)
(***************************************************************************)
\* letter case is folded for the letters of the reasoning tags
Lower(c) ==
  CASE c = "T" -> "t" [] c = "H" -> "h" [] c = "I" -> "i" [] c = "N" -> "n"
    [] c = "K" -> "k" [] c = "G" -> "g" [] OTHER -> c

\* the literal p matches s at i, letter case ignored
MatchAt(s, i, p) ==
  /\ i >= 1
  /\ i + Len(p) - 1 <= Len(s)
  /\ \A k \in 1..Len(p) : Lower(s[i + k - 1]) = Lower(p[k])

\* the reasoning tags of lines 162-164
Tags ==
  [think |-> <<"<", "t", "h", "i", "n", "k", ">">>,
   thinking |-> <<"<", "t", "h", "i", "n", "k", "i", "n", "g", ">">>,
   end_think |-> <<"<", "/", "t", "h", "i", "n", "k", ">">>,
   end_thinking |-> <<"<", "/", "t", "h", "i", "n", "k", "i", "n", "g", ">">>]

\* re.sub(open + '.*?' + close, '', s, DOTALL | IGNORECASE): each leftmost
\* opening tag is removed up to the nearest closing tag after it
RECURSIVE SubDelimited(_, _, _, _)
SubDelimited(s, i, open, close) ==
  IF i > Len(s) THEN <<>>
  ELSE LET ends == {j \in (i + Len(open))..Len(s) : MatchAt(s, j, close)} IN
       IF MatchAt(s, i, open) /\ ends # {}
       THEN LET j == CHOOSE j \in ends : \A k \in ends : j <= k IN
            SubDelimited(s, j + Len(close), open, close)
       ELSE <<s[i]>> \o SubDelimited(s, i + 1, open, close)

RECURSIVE notLtEnd(_, _)
notLtEnd(s, i) == IF i <= Len(s) /\ s[i] # "<" THEN notLtEnd(s, i + 1) ELSE i

\* re.sub(r'<think(?:ing)?>[^<]*(?:</think(?:ing)?>)?', '', s): an opening
\* tag, the text up to the next "<", and a closing tag if one stands there
RECURSIVE SubOpening(_, _)
SubOpening(s, i) ==
  IF i > Len(s) THEN <<>>
  ELSE LET olen == IF MatchAt(s, i, Tags.thinking) THEN Len(Tags.thinking)
                   ELSE IF MatchAt(s, i, Tags.think) THEN Len(Tags.think) ELSE 0 IN
       IF olen = 0 THEN <<s[i]>> \o SubOpening(s, i + 1)
       ELSE LET k == notLtEnd(s, i + olen)
                clen == IF MatchAt(s, k, Tags.end_thinking) THEN Len(Tags.end_thinking)
                        ELSE IF MatchAt(s, k, Tags.end_think) THEN Len(Tags.end_think) ELSE 0 IN
            SubOpening(s, k + clen)

\* re.sub(r'\n\s*\n', '\n\n', s): a line break, whitespace, and the last line
\* break of that whitespace become two line breaks
RECURSIVE SubBlankLines(_, _)
SubBlankLines(s, i) ==
  IF i > Len(s) THEN <<>>
  ELSE LET e == skipws(s, i + 1)
           nls == {j \in (i + 1)..(e - 1) : s[j] = NL} IN
       IF s[i] = NL /\ nls # {}
       THEN <<NL, NL>> \o SubBlankLines(s, (CHOOSE j \in nls : \A k \in nls : k <= j) + 1)
       ELSE <<s[i]>> \o SubBlankLines(s, i + 1)

max_length == 10000
TruncationMark == <<".", ".", ".", "(">> \o MarkGlyphs \o <<")">>

\* APIClient._sanitize_chat_response
_sanitize_chat_response(content) ==
  LET Truncate(cleaned) ==
        IF Len(cleaned) > max_length THEN Upto(cleaned, max_length) \o TruncationMark
        ELSE cleaned
  IN IF content = <<>> THEN <<>>
     ELSE Truncate(strip(SubBlankLines(
            SubOpening(
              SubDelimited(SubDelimited(content, 1, Tags.thinking, Tags.end_thinking),
                           1, Tags.think, Tags.end_think),
              1),
            1)))

\* APIClient._strip_code_fences
_strip_code_fences(content) ==
  LET Tail3(t) == strip(IF endswith(t, FENCE) THEN Upto(t, Len(t) - 3) ELSE t)
      Body(trimmed, newline_index) ==
        Tail3(IF newline_index # 0 THEN From(trimmed, newline_index + 1) ELSE trimmed)
      Fenced(trimmed) ==
        IF startswith(trimmed, FENCE) THEN Body(trimmed, find(trimmed, NL)) ELSE content
  IN IF content = <<>> THEN <<>> ELSE Fenced(strip(content))

\* re.sub(r'^(?:\d+|\(\d+\)|\[\d+\])[\.\):]?\s*', '', text): the length of
\* the prefix the pattern matches at the start of text (a number, bare or in
\* parentheses or brackets, an optional separator, whitespace); -1 when it
\* matches none
EnumPrefixLen(text) ==
  LET Bracketed(e) ==
        IF e <= Len(text) /\ text[e] = (IF text[1] = "(" THEN ")" ELSE "]") THEN e ELSE -1
      NumEnd ==
        IF Len(text) >= 1 /\ text[1] \in Digits THEN digitsEnd(text, 1) - 1
        ELSE IF Len(text) >= 3 /\ text[1] \in {"(", "["} /\ text[2] \in Digits
        THEN Bracketed(digitsEnd(text, 2))
        ELSE -1
      SepEnd(numEnd) ==
        IF numEnd + 1 <= Len(text) /\ text[numEnd + 1] \in {".", ")", ":"}
        THEN numEnd + 1 ELSE numEnd
      AfterNum(numEnd) ==
        IF numEnd = -1 THEN -1 ELSE skipws(text, SepEnd(numEnd) + 1) - 1
  IN AfterNum(NumEnd)

\* APIClient._clean_translation_entry, for an item of a parsed array
_clean_translation_entry(item) ==
  LET Drop(t, k) == IF k = -1 THEN t ELSE From(t, k + 1)
      Clean(t) == Drop(t, EnumPrefixLen(t))
  IN Clean(_strip_code_fences(strip(IF item.t = "str" THEN item.s ELSE json_dumps(item))))

\* the same, for a line of text
CleanLine(line) == _clean_translation_entry(JStr(line))

CleanAll(items) == [i \in 1..Len(items) |-> _clean_translation_entry(items[i])]

None == [some |-> FALSE, list |-> <<>>]
Some(l) == [some |-> TRUE, list |-> l]
CleanSome(parsed_array) ==
  IF parsed_array.some THEN Some(CleanAll(parsed_array.list)) ELSE None

Translations == <<"t", "r", "a", "n", "s", "l", "a", "t", "i", "o", "n", "s">>

\* strategy (a), lines 184-200: the whole text as JSON: an array, or an
\* object whose "translations" member is an array or a mapping (its values)
WholeJson(cleaned) ==
  LET Candidate(candidate) ==
        IF candidate.found /\ candidate.v.t = "arr" THEN Some(candidate.v.items)
        ELSE IF candidate.found /\ candidate.v.t = "obj" THEN Some(dict_values(candidate.v))
        ELSE None
      Parsed(parsed_json) ==
        IF ~parsed_json.ok THEN None
        ELSE IF parsed_json.v.t = "obj" THEN Candidate(dict_get(parsed_json.v, Translations))
        ELSE IF parsed_json.v.t = "arr" THEN Some(parsed_json.v.items)
        ELSE None
  IN CleanSome(Parsed(json_loads(cleaned)))

\* re.search(r'\[[\s\S]*\]', cleaned): from the first "[" to the last "]" of
\* the text; <<>> when no "]" follows a "["
array_match(cleaned) ==
  LET Span(a, b) == IF a # 0 /\ b > a THEN SubSeq(cleaned, a, b) ELSE <<>>
  IN Span(find(cleaned, "["), rfind(cleaned, "]"))

\* strategy (b), lines 204-213: the bracketed substring as JSON
EmbeddedJson(cleaned) ==
  LET Loaded(parsed_array) ==
        IF parsed_array.ok /\ parsed_array.v.t = "arr" THEN Some(parsed_array.v.items)
        ELSE None
      Of(m) == IF m = <<>> THEN None ELSE CleanSome(Loaded(json_loads(m)))
  IN Of(array_match(cleaned))

\* strategy (c), line 215: one item per non-blank line
LineSplit(cleaned) ==
  LET Clean(ls) == [i \in 1..Len(ls) |-> CleanLine(ls[i])]
  IN Clean(SelectNonBlank(splitlines(cleaned)))

\* a variant of _extract_batch_translations that tries the line split before
\* the two JSON strategies
ExtractLinesFirst(raw_content, expected_count) ==
  LET TryEmbedded(embedded) ==
        IF embedded.some /\ Len(embedded.list) = expected_count THEN embedded ELSE None
      TryWhole(cleaned, whole) ==
        IF whole.some /\ Len(whole.list) = expected_count THEN whole
        ELSE TryEmbedded(EmbeddedJson(cleaned))
      TryLines(cleaned, lines) ==
        IF Len(lines) = expected_count THEN Some(lines)
        ELSE TryWhole(cleaned, WholeJson(cleaned))
      From1(cleaned) == TryLines(cleaned, LineSplit(cleaned))
  IN IF raw_content = <<>> THEN None
     ELSE From1(_strip_code_fences(strip(raw_content)))

\* a variant of _extract_batch_translations without the checks of the count
ExtractUnchecked(raw_content, expected_count) ==
  LET Pick(cleaned, whole) == IF whole.some THEN whole ELSE Some(LineSplit(cleaned))
      From1(cleaned) == Pick(cleaned, WholeJson(cleaned))
  IN IF raw_content = <<>> THEN None
     ELSE From1(_strip_code_fences(strip(raw_content)))

\* a variant of _extract_batch_translations that cuts a longer array down to
\* expected_count
ExtractTruncating(raw_content, expected_count) ==
  LET TryLines(lines) == IF Len(lines) = expected_count THEN Some(lines) ELSE None
      TryWhole(cleaned, whole) ==
        IF whole.some /\ Len(whole.list) >= expected_count
        THEN Some(SubSeq(whole.list, 1, expected_count))
        ELSE TryLines(LineSplit(cleaned))
      From1(cleaned) == TryWhole(cleaned, WholeJson(cleaned))
  IN IF raw_content = <<>> THEN None
     ELSE From1(_strip_code_fences(strip(raw_content)))

\* APIClient._extract_batch_translations: the first strategy whose result has
\* expected_count items
_extract_batch_translations(raw_content, expected_count) ==
  LET TryLines(lines) == IF Len(lines) = expected_count THEN Some(lines) ELSE None
      TryEmbedded(cleaned, embedded) ==
        IF embedded.some /\ Len(embedded.list) = expected_count THEN embedded
        ELSE TryLines(LineSplit(cleaned))
      TryWhole(cleaned, whole) ==
        IF whole.some /\ Len(whole.list) = expected_count THEN whole
        ELSE TryEmbedded(cleaned, EmbeddedJson(cleaned))
      From1(cleaned) == TryWhole(cleaned, WholeJson(cleaned))
  IN IF raw_content = <<>> THEN None
     ELSE From1(_strip_code_fences(strip(raw_content)))

(***************************************************************************)
(* core/api_client.py: the provider configuration and translate_batch      *)
(***************************************************************************)
\* a setting is missing (None), empty ("") or set; `not x` holds of the first two
Settings == {"missing", "empty", "set"}
Configs == [api_url : Settings, api_key : Settings, model_name : Settings]
CompleteConfig == [api_url |-> "set", api_key |-> "set", model_name |-> "set"]

\* the failure texts of translate_batch
TranslateMsg ==
  [config |-> "translate failed: API configuration incomplete",
   timeout |-> "translate failed: API request timed out",
   connect |-> "translate failed: cannot connect to API server",
   exception |-> "translate failed: <exception text>",
   status |-> "translate failed: API returned error status",
   envelope |-> "translate failed: cannot parse API response",
   extract |-> "translate failed: cannot parse batch translation result"]

\* a variant of ConfigIncomplete that forgets the key
ConfigIncompleteNoKey(config) ==
  config.api_url # "set" \/ config.model_name # "set"

\* APIClient._build_common_payload: TRUE when it returns the error result
ConfigIncomplete(config) ==
  config.api_url # "set" \/ config.api_key # "set" \/ config.model_name # "set"

\* what the provider does with one POST: the transport fails (timeout,
\* connection, other), or it answers with a status and a body: not JSON,
\* JSON without choices[0].message.content, JSON whose content raises another
\* error when indexed, or a reply with its content and usage field
UpKinds == {"timeout", "connection", "other_error", "status", "not_json",
            "no_fields", "bad_shape", "reply"}
\* usage of the envelope: absent, null/empty, a mapping of counters, or a
\* non-empty value that is no mapping
UsageKinds == {"absent", "empty", "counters", "malformed"}

Failure(msg, calls) ==
  [success |-> FALSE, text |-> msg, translations |-> <<>>, usage |-> "none", calls |-> calls]

\* lines 138-143: each extracted item is sanitized, then limited
RestoreAll(translations) ==
  [i \in 1..Len(translations) |->
     normalize_text(_sanitize_chat_response(translations[i]))]

\* lines 131-149: the result for what was extracted from the reply
ReplyResult(translations, usage) ==
  IF ~translations.some \/ translations.list = <<>> THEN Failure(TranslateMsg.extract, 1)
  ELSE [success |-> TRUE, text |-> "",
        translations |-> RestoreAll(translations.list),
        usage |-> IF usage = "absent" THEN "empty" ELSE usage,
        calls |-> 1]

\* APIClient.translate_batch; calls counts the HTTP requests it issued
translate_batch(config, texts, up) ==
  IF texts = <<>>
  THEN [success |-> TRUE, text |-> "", translations |-> <<>>, usage |-> "none", calls |-> 0]
  ELSE IF ConfigIncomplete(config) THEN Failure(TranslateMsg.config, 0)
  ELSE IF up.kind = "timeout" THEN Failure(TranslateMsg.timeout, 1)
  ELSE IF up.kind = "connection" THEN Failure(TranslateMsg.connect, 1)
  ELSE IF up.kind = "other_error" THEN Failure(TranslateMsg.exception, 1)
  ELSE IF up.kind = "status" THEN Failure(TranslateMsg.status, 1)
  ELSE IF up.kind = "not_json" THEN Failure(TranslateMsg.envelope, 1)
  ELSE IF up.kind = "no_fields" THEN Failure(TranslateMsg.envelope, 1)
  ELSE IF up.kind = "bad_shape" THEN Failure(TranslateMsg.exception, 1)
  ELSE ReplyResult(_extract_batch_translations(up.content, Len(texts)), up.usage)

\* APIClient.test_connection: the three settings are checked one by one
TestMsg ==
  [url |-> "error: API URL must not be empty",
   key |-> "error: API Key must not be empty",
   model |-> "error: model name must not be empty",
   timeout |-> "error: API request timed out",
   connect |-> "error: cannot connect to API server",
   exception |-> "error while testing the configuration: <exception text>",
   status |-> "API request failed, HTTP status code <status>",
   parse |-> "error while parsing the API response: <exception text>",
   ok |-> "API answered: <reply>"]

\* what an operation hands to its caller: a result mapping, or an exception
Outcome(success, message, calls) ==
  [success |-> success, message |-> message, calls |-> calls, raised |-> FALSE]
Raised(exception, calls) ==
  [success |-> FALSE, message |-> exception, calls |-> calls, raised |-> TRUE]

test_connection(config, up) ==
  IF config.api_url # "set" THEN Outcome(FALSE, TestMsg.url, 0)
  ELSE IF config.api_key # "set" THEN Outcome(FALSE, TestMsg.key, 0)
  ELSE IF config.model_name # "set" THEN Outcome(FALSE, TestMsg.model, 0)
  ELSE IF up.kind = "timeout" THEN Outcome(FALSE, TestMsg.timeout, 1)
  ELSE IF up.kind = "connection" THEN Outcome(FALSE, TestMsg.connect, 1)
  ELSE IF up.kind = "other_error" THEN Outcome(FALSE, TestMsg.exception, 1)
  ELSE IF up.kind = "status" THEN Outcome(FALSE, TestMsg.status, 1)
  ELSE IF up.kind = "not_json" THEN Outcome(FALSE, TestMsg.exception, 1)
  ELSE IF up.kind \in {"no_fields", "bad_shape"} THEN Outcome(FALSE, TestMsg.parse, 1)
  ELSE Outcome(TRUE, TestMsg.ok, 1)

\* APIClient.get_model_list: the URL and the key are checked, the model name
\* is not; then up to three endpoints are asked in turn.  An endpoint answers
\* with a list of models, with something else, or the request fails
ListMsg ==
  [url |-> "model list failed: API URL must not be empty",
   key |-> "model list failed: API Key must not be empty",
   none |-> "cannot get the model list, check the API configuration",
   ok |-> "<models>",
   raised |-> "<AttributeError or TypeError>"]
endpoints == 3
\* an endpoint's answer: a mapping with a non-empty list of models under data
\* or models; a status other than 200, or a mapping without such a list
\* (other); a failed request, RequestException (error); or a 200 whose body
\* the code cannot handle (raises): JSON that is no mapping (null, a number,
\* a list: the in test or .items() of lines 398-404 raises), a list whose
\* entries are no mappings (model.get, lines 399-401), and, with a requests
\* library whose JSONDecodeError is no RequestException, a body that is no JSON
EndpointAnswers == [1..endpoints -> {"models", "other", "error", "raises"}]

\* the requests issued: up to the first endpoint that ends the loop
Asked(answers) ==
  LET ends(i) == answers[i] \in {"models", "raises"} IN
  IF \E i \in 1..endpoints : ends(i)
  THEN CHOOSE i \in 1..endpoints : ends(i) /\ \A j \in 1..(i - 1) : ~ends(j)
  ELSE endpoints

get_model_list(config, answers) ==
  IF config.api_url # "set" THEN Outcome(FALSE, ListMsg.url, 0)
  ELSE IF config.api_key # "set" THEN Outcome(FALSE, ListMsg.key, 0)
  ELSE IF \A i \in 1..endpoints : answers[i] \notin {"models", "raises"}
  THEN Outcome(FALSE, ListMsg.none, endpoints)
  ELSE IF answers[Asked(answers)] = "models"
  THEN Outcome(TRUE, ListMsg.ok, Asked(answers))
  ELSE Raised(ListMsg.raised, Asked(answers))

\* the contents a provider's reply may have
Replies ==
  { <<"[", QUOTE, "x", QUOTE, "]">>,
    <<"[", QUOTE, "x", QUOTE, ",", QUOTE, "y", QUOTE, "]">>,
    <<"1", ".", " ", "x", NL, "2", ".", " ", "y">> }

Upstreams ==
  [kind : UpKinds \ {"reply"}, content : {<<>>}, usage : {"absent"}]
    \cup [kind : {"reply"}, content : Replies, usage : UsageKinds]

(***************************************************************************)
(* The state.  Each specification below moves one group of variables and    *)
(* leaves the others at rest.                                                *)
(***************************************************************************)
\* connections over the life of the model, and those Spec lets a client open
NumHandlers == 2
NumActive == 1
\* the 0.5 s waits that fit under the 180 s ceiling of _wait_for_result
MaxPolls == 2
\* toggle_server calls that start or stop the server
MaxToggles == 3
\* texts of one request
MaxTexts == 2
\* HTTP requests the client issues over a run of ClientSpec
MaxCalls == 4
\* requests accepted over a run of PoolSpec
MaxRequests == 6
Handlers == 1..NumHandlers
Active == 1..NumActive

\* TranslationHandler.executor = ThreadPoolExecutor(max_workers=5), and the
\* pool close_resources puts in its place
max_workers == 5
close_workers == 1

\* every close_resources adds a pool, and so may the submission after it
PoolIds == 1..(2 * MaxToggles + 6)

VARIABLES
  hpc,              \* handler: idle, submit1, submit2, wait, get, done, raised
  body,             \* handler: raw_body of its request
  texts,            \* handler: normalized_texts of its request
  polls,            \* handler: 0.5 s waits of _wait_for_result that ran out
  result_queue,     \* handler: self.result_queue
  responses,        \* handler: the HTTP responses written on its connection
  tpc,              \* task: none, queued, running, put, done
  tpool,            \* task: the pool it was submitted to
  tres,             \* task: the success result it is about to put
  executor,         \* TranslationHandler.executor: 0 is None
  pools,            \* every pool created: [max, shut]
  is_shutting_down, \* app.is_shutting_down
  is_running,       \* ServerManager.is_running
  server,           \* ServerManager.server exists and accepts connections
  cpc,              \* operator thread: idle, c1..c4, after, closed
  cctx,             \* what runs close_resources: toggle, close_stop, close_final
  toggles,          \* toggle_server calls that started or stopped the server
  posted,           \* history: every result the task put into result_queue
  waitingAtStop,    \* history: handlers waiting when ServerManager.stop began
  waitingAtFlag     \* history: handlers waiting when is_shutting_down was set

VARIABLES
  config,           \* APIClient.config
  op,               \* the client operation called last
  request,          \* the texts given to translate_batch
  outcome,          \* what the operation returned, and the requests it issued
  http_calls,       \* HTTP requests issued so far
  upstream          \* history: what the provider did with the last operation

VARIABLES
  raw_content,      \* the reply given to _extract_batch_translations
  expected_count,   \* its expected_count
  elements,         \* history: the elements of the array the reply holds
  estage,           \* new, extracted, reported
  extracted,        \* what _extract_batch_translations returned
  report            \* translate_batch's result for it

VARIABLES
  arrived,          \* handlers about to call _submit_translation
  checked,          \* handlers between lines 225 and 227 of it
  backlog,          \* tasks in each pool's queue
  inflight,         \* tasks each pool's workers are running
  served            \* requests accepted so far

VARIABLES
  text,             \* the string given to a text function
  once,             \* what the function made of it
  twice,            \* what the function made of that
  tstage            \* new, once, twice

VARIABLES
  server_thread,    \* ServerManager.server_thread is set
  calls             \* history: the start() and stop() calls made, with results

hVars == <<hpc, body, texts, polls, result_queue, responses>>
tVars == <<tpc, tpool, tres, posted>>
pVars == <<executor, pools>>
cVars == <<is_shutting_down, is_running, server, cpc, cctx, toggles,
           waitingAtStop, waitingAtFlag>>
serverVars == <<hVars, tVars, pVars, cVars>>
clientVars == <<config, op, request, outcome, http_calls, upstream>>
extractVars == <<raw_content, expected_count, elements, estage, extracted, report>>
poolVars == <<arrived, checked, backlog, inflight, served>>
textVars == <<text, once, twice, tstage>>
managerVars == <<server_thread, calls>>
vars == <<serverVars, clientVars, extractVars, poolVars, textVars, managerVars>>

FailResult(msg) == [success |-> FALSE, error |-> msg, translations |-> <<>>, usage |-> "none"]
OkResult(translations, usage) ==
  [success |-> TRUE, error |-> "", translations |-> translations, usage |-> usage]

ServerInit ==
  /\ hpc = [h \in Handlers |-> "idle"]
  /\ body = [h \in Handlers |-> <<>>]
  /\ texts = [h \in Handlers |-> <<>>]
  /\ polls = [h \in Handlers |-> 0]
  /\ result_queue = [h \in Handlers |-> <<>>]
  /\ responses = [h \in Handlers |-> <<>>]
  /\ tpc = [h \in Handlers |-> "none"]
  /\ tpool = [h \in Handlers |-> 0]
  /\ tres = [h \in Handlers |-> FailResult("")]
  /\ executor = 1
  /\ pools = <<[max |-> max_workers, shut |-> FALSE]>>
  /\ is_shutting_down = FALSE
  /\ is_running = FALSE
  /\ server = FALSE
  /\ cpc = "idle"
  /\ cctx = "toggle"
  /\ toggles = 0
  /\ posted = [h \in Handlers |-> <<>>]
  /\ waitingAtStop = {}
  /\ waitingAtFlag = {}

ClientIdle ==
  /\ config = CompleteConfig
  /\ op = "none"
  /\ request = <<>>
  /\ outcome = Outcome(TRUE, "", 0)
  /\ http_calls = 0
  /\ upstream = "none"

ExtractIdle ==
  /\ raw_content = <<>>
  /\ expected_count = 0
  /\ elements = 0
  /\ estage = "new"
  /\ extracted = None
  /\ report = Failure("", 0)

TextIdle ==
  /\ text = <<>>
  /\ once = <<>>
  /\ twice = <<>>
  /\ tstage = "new"

ManagerIdle ==
  /\ server_thread = FALSE
  /\ calls = <<>>

PoolIdle ==
  /\ arrived = 0
  /\ checked = 0
  /\ backlog = [p \in PoolIds |-> 0]
  /\ inflight = [p \in PoolIds |-> 0]
  /\ served = 0

(***************************************************************************)
(* core/api_client.py: the three remote operations, called on a             *)
(* configuration the user left in any state.                                 *)
(***************************************************************************)
ClientInit ==
  /\ config \in Configs
  /\ op = "none"
  /\ request = <<>>
  /\ outcome = Outcome(TRUE, "", 0)
  /\ http_calls = 0
  /\ upstream = "none"

Requests == {<<>>, <<<<"a">>>>, <<<<"a">>, <<"b">>>>}

CallTranslateBatch ==
  \E t \in Requests, up \in Upstreams :
    LET result == translate_batch(config, t, up) IN
    /\ http_calls + result.calls <= MaxCalls
    /\ op' = "translate_batch"
    /\ request' = t
    /\ outcome' = Outcome(result.success, result.text, result.calls)
    /\ http_calls' = http_calls + result.calls
    /\ upstream' = up
    /\ UNCHANGED <<config, serverVars, extractVars, poolVars, textVars, managerVars>>

CallTestConnection ==
  \E up \in Upstreams :
    LET result == test_connection(config, up) IN
    /\ http_calls + result.calls <= MaxCalls
    /\ op' = "test_connection"
    /\ outcome' = result
    /\ http_calls' = http_calls + result.calls
    /\ upstream' = up
    /\ UNCHANGED <<config, request, serverVars, extractVars, poolVars, textVars, managerVars>>

CallGetModelList ==
  \E answers \in EndpointAnswers :
    LET result == get_model_list(config, answers) IN
    /\ http_calls + result.calls <= MaxCalls
    /\ op' = "get_model_list"
    /\ outcome' = result
    /\ http_calls' = http_calls + result.calls
    /\ upstream' = answers
    /\ UNCHANGED <<config, request, serverVars, extractVars, poolVars, textVars, managerVars>>

ClientNext == CallTranslateBatch \/ CallTestConnection \/ CallGetModelList

ClientStart == ServerInit /\ ClientInit /\ ExtractIdle /\ PoolIdle /\ TextIdle /\ ManagerIdle

ClientSpec == ClientStart /\ [][ClientNext]_vars

(***************************************************************************)
(* core/api_client.py: _extract_batch_translations on replies that hold an  *)
(* array of strings in some layout, alone or wrapped.                        *)
(***************************************************************************)
MaxElements == 3
Str(c) == <<QUOTE, c, QUOTE>>
Items == <<Str("a"), Str("b"), Str("c"), Str("d"), Str("e")>>

\* the array of the first k items: open, the items with sep1 after the
\* first and sep after the others, close
RECURSIVE Joined(_, _, _, _)
Joined(i, k, sep1, sep) ==
  IF i > k THEN <<>>
  ELSE Items[i] \o (IF i = k THEN <<>> ELSE IF i = 1 THEN sep1 ELSE sep)
         \o Joined(i + 1, k, sep1, sep)
Layouts ==
  { [open |-> <<"[">>, sep1 |-> <<",">>, sep |-> <<",">>, close |-> <<"]">>],
    [open |-> <<"[", " ">>, sep1 |-> <<",", " ">>, sep |-> <<",", " ">>, close |-> <<" ", "]">>],
    [open |-> <<"[", NL>>, sep1 |-> <<",", NL>>, sep |-> <<",", NL>>, close |-> <<NL, "]">>],
    [open |-> <<"[", NL>>, sep1 |-> <<",">>, sep |-> <<",">>, close |-> <<NL, "]">>],
    [open |-> <<"[">>, sep1 |-> <<",", NL>>, sep |-> <<",">>, close |-> <<"]">>],
    [open |-> <<"[", NL>>, sep1 |-> <<",">>, sep |-> <<",">>, close |-> <<"]">>] }
ArrayText(l, k) == l.open \o Joined(1, k, l.sep1, l.sep) \o l.close

\* what surrounds the array: nothing, prose on its line or on lines of its
\* own, bracketed text after it, a code fence, an object with the array as
\* its translations member or as its items member,
\* a reasoning span before it (plain, of two lines, holding brackets)
Wrappers ==
  { [pre |-> <<>>, post |-> <<>>],
    [pre |-> <<"O", "K", ":", " ">>, post |-> <<>>],
    [pre |-> <<"O", "K", NL>>, post |-> <<>>],
    [pre |-> <<>>, post |-> <<NL, "d", "o", "n", "e">>],
    [pre |-> FENCE \o <<"j", "s", "o", "n", NL>>, post |-> <<NL>> \o FENCE],
    [pre |-> <<"{", QUOTE>> \o Translations \o <<QUOTE, ":">>, post |-> <<"}">>],
    [pre |-> <<"{", QUOTE, "i", "t", "e", "m", "s", QUOTE, ":">>, post |-> <<"}">>],
    [pre |-> <<>>, post |-> <<" ", "[", "x", "]">>],
    [pre |-> Tags.think \o <<"h", "m">> \o Tags.end_think, post |-> <<>>],
    [pre |-> Tags.think \o <<"h", NL, "m">> \o Tags.end_think \o <<NL>>, post |-> <<>>],
    [pre |-> Tags.think \o <<"[", "1", "]">> \o Tags.end_think \o <<NL>>, post |-> <<>>] }
ReplyText(w, l, k) == w.pre \o ArrayText(l, k) \o w.post

\* the reply is a wrapped array, or one of a few replies without an array: a
\* mapping under translations and under another name, and numbered lines
ExtractInit ==
  LET Mapping(name) ==
        <<"{", QUOTE>> \o name
          \o <<QUOTE, ":", "{", QUOTE, "k", QUOTE, ":", QUOTE, "a", QUOTE, ",">>
          \o <<QUOTE, "j", QUOTE, ":", QUOTE, "b", QUOTE, "}", "}">>
      Others ==
        { Mapping(Translations),
          Mapping(<<"i", "t", "e", "m", "s">>),
          <<"1", ".", " ", "a", NL, "2", ".", " ", "b">>,
          <<"3", "D", NL, "2", ".", " ", "b">>,
          <<"(", "1", ")", " ", "a", NL, "[", "2", "]", ":", " ", "b">> }
  IN /\ \/ \E w \in Wrappers, l \in Layouts, k \in 1..MaxElements :
            /\ raw_content = ReplyText(w, l, k)
            /\ elements = k
        \/ /\ raw_content \in Others
           /\ elements = 0
     /\ expected_count \in 1..MaxElements
     /\ estage = "new"
     /\ extracted = None
     /\ report = Failure("", 0)

\* translate_batch, line 131
Extract ==
  /\ estage = "new"
  /\ extracted' = _extract_batch_translations(raw_content, expected_count)
  /\ estage' = "extracted"
  /\ UNCHANGED <<raw_content, expected_count, elements, report, serverVars,
                 clientVars, poolVars, textVars, managerVars>>

\* translate_batch, lines 131-149
Report ==
  /\ estage = "extracted"
  /\ report' = ReplyResult(extracted, "absent")
  /\ estage' = "reported"
  /\ UNCHANGED <<raw_content, expected_count, elements, extracted, serverVars,
                 clientVars, poolVars, textVars, managerVars>>

ExtractNext == Extract \/ Report

ExtractStart == ServerInit /\ ClientIdle /\ ExtractInit /\ PoolIdle /\ TextIdle /\ ManagerIdle

ExtractSpec == ExtractStart /\ [][ExtractNext]_vars


(***************************************************************************)
(* core/api_client.py and core/character_limiter.py: the two text           *)
(* functions of lines 141-142, _sanitize_chat_response and normalize_text,   *)
(* each applied to a text and then to its own result.  The texts are put     *)
(* together from reasoning tags, pieces of tags, letters, blanks and line    *)
(* breaks, or from glyphs of every class the limiter tells apart.            *)
(***************************************************************************)
MaxFragments == 5
MaxGlyphs == 3

TextInit ==
  LET Fragments ==
        << Tags.think, Tags.end_think, Tags.thinking,
           <<"<", "/", "T", "H", "I", "N", "K", "I", "N", "G", ">">>,
           <<"<", "t", "h", "i">>, <<"n", "k", ">">>, <<"x">>, <<" ">>, <<NL>> >>
      \* the example of the reasoning-markup removal
      Example ==
        Tags.think \o <<"i", "g", "n", "o", "r", "e", " ", "m", "e">> \o Tags.end_think
          \o <<"H", "e", "l", "l", "o">>
      \* a letter, a blank, two allowed glyphs, a glyph with an allowed
      \* homophone, a glyph without one, the ideographic space, a glyph of
      \* the allowed file that has no reading
      Glyphs == <<"a", " ", "U+4F60", "U+597D", "U+59B3", "U+2605", "U+3000", MarkGlyphs[1]>>
      Words(alphabet, max) == UNION {[1..n -> 1..Len(alphabet)] : n \in 0..max}
  IN /\ ServerInit /\ ClientIdle /\ ExtractIdle /\ PoolIdle /\ ManagerIdle
     /\ text \in {Concat([i \in DOMAIN f |-> Fragments[f[i]]]) : f \in Words(Fragments, MaxFragments)}
                   \cup {Example}
                   \cup {[i \in DOMAIN f |-> Glyphs[f[i]]] : f \in Words(Glyphs, MaxGlyphs)}
     /\ once = <<>>
     /\ twice = <<>>
     /\ tstage = "new"

\* _sanitize_chat_response(content), and again on the string it returned
Sanitize ==
  /\ tstage = "new"
  /\ once' = _sanitize_chat_response(text)
  /\ twice' = _sanitize_chat_response(once')
  /\ tstage' = "sanitized"
  /\ UNCHANGED <<text, serverVars, clientVars, extractVars, poolVars, managerVars>>

\* normalize_text(text), and again on the string it returned
Normalize ==
  /\ tstage = "new"
  /\ once' = normalize_text(text)
  /\ twice' = normalize_text(once')
  /\ tstage' = "normalized"
  /\ UNCHANGED <<text, serverVars, clientVars, extractVars, poolVars, managerVars>>

TextSpec == TextInit /\ [][Sanitize \/ Normalize]_vars
(***************************************************************************)
(* core/server.py: TranslationHandler and ServerManager; ui/app.py: the    *)
(* operator's toggle and the window close.                                 *)
(* Each handler serves one POST on a thread of its own; its task runs on a  *)
(* worker of the pool it was submitted to.                                  *)
(***************************************************************************)
\* the failure texts of the server
ServerMsg ==
  [empty_body |-> "request body is empty",
   not_json |-> "request body is not valid JSON",
   no_texts |-> "texts array missing",
   server_error |-> "server error: <exception text>",
   shutdown |-> "translate failed: application is shutting down",
   mismatch |-> "translate failed: result count differs from request count",
   timeout |-> "translate failed: processing timed out",
   exception |-> "translate failed: <exception text>",
   default |-> "translate failed"]

Plain(status, message) ==
  [status |-> status, kind |-> "plain", message |-> message,
   translations |-> <<>>, usage |-> "none"]
Json(translations, usage) ==
  [status |-> 200, kind |-> "json", message |-> "",
   translations |-> translations, usage |-> usage]

\* the request bodies a client sends
Texts == <<"t", "e", "x", "t", "s">>
BodyOf(value) == <<"{", QUOTE>> \o Texts \o <<QUOTE, ":">> \o value \o <<"}">>
Bodies ==
  { <<>>,                                              \* no body
    <<"x">>,                                           \* not JSON
    <<"[", "1", "]">>,                                 \* JSON, not an object
    <<"{", "}">>,                                      \* no texts
    BodyOf(<<"1">>),                                   \* texts is no array
    BodyOf(<<"[", "]">>),                              \* texts is empty
    BodyOf(<<"[", QUOTE, "a", QUOTE, "]">>),
    BodyOf(<<"[", QUOTE, "a", QUOTE, ",", "2", "]">>) }

\* str(item) of line 125, for a string or a number
StrOf(item) == IF item.t = "str" THEN item.s ELSE json_dumps(item)

\* do_POST, lines 98-126: what the body leads to: a response, or the texts.
\* On a payload that is no object payload.get raises AttributeError, which
\* line 151 answers
ParseBody(raw_body) ==
  LET Rejected(response) == [ok |-> FALSE, response |-> response, texts |-> <<>>]
      TextsOf(t) ==
        IF ~t.found \/ t.v.t # "arr" \/ t.v.items = <<>>
        THEN Rejected(Plain(400, ServerMsg.no_texts))
        ELSE [ok |-> TRUE, response |-> Plain(0, ""),
              texts |-> [i \in 1..Len(t.v.items) |-> StrOf(t.v.items[i])]]
      PayloadOf(payload) ==
        IF ~payload.ok THEN Rejected(Plain(400, ServerMsg.not_json))
        ELSE IF payload.v.t # "obj" THEN Rejected(Plain(500, ServerMsg.server_error))
        ELSE TextsOf(dict_get(payload.v, Texts))
  IN IF raw_body = <<>> THEN Rejected(Plain(400, ServerMsg.empty_body))
     ELSE PayloadOf(json_loads(raw_body))

\* a variant of Respond that writes usage whenever the result has the key
RespondAnyUsage(result) ==
  IF ~result.success THEN Plain(500, result.error)
  ELSE Json(result.translations, result.usage)

\* do_POST, lines 131-148: the response to a result
Respond(result) ==
  IF ~result.success THEN Plain(500, result.error)
  ELSE Json(result.translations,
            IF result.usage \in {"counters", "malformed"} THEN result.usage ELSE "none")

\* core.utils.convert_punctuation, applied to each translation (line 191)
convert_punctuation(item) ==
  [i \in 1..Len(item) |->
     CASE item[i] = "," -> "U+FF0C" [] item[i] = ":" -> "U+FF1A" [] OTHER -> item[i]]

\* the provider's answers to the requests of the server
ServerUpstreams ==
  [kind : {"timeout"}, content : {<<>>}, usage : {"absent"}]
    \cup [kind : {"reply"}, content : Replies, usage : {"absent", "counters", "malformed"}]

\* translate_batch's results for a request of n texts, over the provider's answers
BatchResults ==
  [n \in 1..MaxTexts |->
     {translate_batch(CompleteConfig, [i \in 1..n |-> <<"a">>], up) : up \in ServerUpstreams}]

\* tasks running on pool p
Running(p) == {h \in Handlers : tpc[h] \in {"running", "put"} /\ tpool[h] = p}
\* handlers in _wait_for_result whose slot is empty
Waiting == {h \in Handlers : hpc[h] \in {"wait", "get"} /\ result_queue[h] = <<>>}

\* do_POST up to line 126, for a connection the server accepted
Post(h) ==
  /\ hpc[h] = "idle"
  /\ server
  /\ \A g \in Handlers : g < h => hpc[g] # "idle"
  /\ \E raw_body \in Bodies :
       LET r == ParseBody(raw_body) IN
       /\ body' = [body EXCEPT ![h] = raw_body]
       /\ IF r.ok
          THEN /\ hpc' = [hpc EXCEPT ![h] = "submit1"]
               /\ texts' = [texts EXCEPT ![h] = r.texts]
               /\ UNCHANGED responses
          ELSE /\ hpc' = [hpc EXCEPT ![h] = "done"]
               /\ responses' = [responses EXCEPT ![h] = Append(@, r.response)]
               /\ UNCHANGED texts
  /\ UNCHANGED <<polls, result_queue, tVars, pVars, cVars, clientVars,
                 extractVars, poolVars, textVars, managerVars>>

\* _submit_translation, lines 224-225: a pool is created if there is none
SubmitCheck(h) ==
  /\ hpc[h] = "submit1"
  /\ hpc' = [hpc EXCEPT ![h] = "submit2"]
  /\ IF executor = 0
     THEN /\ pools' = Append(pools, [max |-> max_workers, shut |-> FALSE])
          /\ executor' = Len(pools) + 1
     ELSE UNCHANGED pVars
  /\ UNCHANGED <<body, texts, polls, result_queue, responses, tVars, cVars,
                 clientVars, extractVars, poolVars, textVars, managerVars>>

\* a variant of SubmitCall under which the exception of executor.submit
\* leaves do_POST
SubmitCallUncaught(h) ==
  /\ hpc[h] = "submit2"
  /\ IF executor = 0 \/ pools[executor].shut
     THEN /\ hpc' = [hpc EXCEPT ![h] = "raised"]
          /\ UNCHANGED <<tpc, tpool>>
     ELSE /\ hpc' = [hpc EXCEPT ![h] = "wait"]
          /\ tpc' = [tpc EXCEPT ![h] = "queued"]
          /\ tpool' = [tpool EXCEPT ![h] = executor]
  /\ UNCHANGED <<body, texts, polls, result_queue, responses, tres, posted, pVars, cVars,
                 clientVars, extractVars, poolVars, textVars, managerVars>>

\* _submit_translation, line 227: executor.submit.  On None it raises
\* AttributeError, on a pool that was shut down RuntimeError; do_POST's
\* handler at line 151 answers either with 500
SubmitCall(h) ==
  /\ hpc[h] = "submit2"
  /\ IF executor = 0 \/ pools[executor].shut
     THEN /\ hpc' = [hpc EXCEPT ![h] = "done"]
          /\ responses' = [responses EXCEPT ![h] = Append(@, Plain(500, ServerMsg.server_error))]
          /\ UNCHANGED <<tpc, tpool>>
     ELSE /\ hpc' = [hpc EXCEPT ![h] = "wait"]
          /\ tpc' = [tpc EXCEPT ![h] = "queued"]
          /\ tpool' = [tpool EXCEPT ![h] = executor]
          /\ UNCHANGED responses
  /\ UNCHANGED <<body, texts, polls, result_queue, tres, posted, pVars, cVars,
                 clientVars, extractVars, poolVars, textVars, managerVars>>

\* a variant of WaitCheck under which the handler goes on reading its
\* result_queue after it has given up and answered
WaitCheckStillReading(h) ==
  /\ hpc[h] = "wait"
  /\ IF polls[h] >= MaxPolls
     THEN /\ hpc' = [hpc EXCEPT ![h] = "get"]
          /\ responses' = [responses EXCEPT ![h] = Append(@, Respond(FailResult(ServerMsg.timeout)))]
     ELSE IF is_shutting_down
     THEN /\ hpc' = [hpc EXCEPT ![h] = "get"]
          /\ responses' = [responses EXCEPT ![h] = Append(@, Respond(FailResult(ServerMsg.shutdown)))]
     ELSE /\ hpc' = [hpc EXCEPT ![h] = "get"]
          /\ UNCHANGED responses
  /\ UNCHANGED <<body, texts, polls, result_queue, tVars, pVars, cVars,
                 clientVars, extractVars, poolVars, textVars, managerVars>>

\* _wait_for_result, lines 233-236 and 243-244: the ceiling, then the flag
WaitCheck(h) ==
  /\ hpc[h] = "wait"
  /\ IF polls[h] >= MaxPolls
     THEN /\ hpc' = [hpc EXCEPT ![h] = "done"]
          /\ responses' = [responses EXCEPT ![h] = Append(@, Respond(FailResult(ServerMsg.timeout)))]
     ELSE IF is_shutting_down
     THEN /\ hpc' = [hpc EXCEPT ![h] = "done"]
          /\ responses' = [responses EXCEPT ![h] = Append(@, Respond(FailResult(ServerMsg.shutdown)))]
     ELSE /\ hpc' = [hpc EXCEPT ![h] = "get"]
          /\ UNCHANGED responses
  /\ UNCHANGED <<body, texts, polls, result_queue, tVars, pVars, cVars,
                 clientVars, extractVars, poolVars, textVars, managerVars>>

\* _wait_for_result, line 239: a result arrives within the 0.5 s
WaitGet(h) ==
  /\ hpc[h] = "get"
  /\ result_queue[h] # <<>>
  /\ result_queue' = [result_queue EXCEPT ![h] = Tail(@)]
  /\ responses' = [responses EXCEPT ![h] = Append(@, Respond(Head(result_queue[h])))]
  /\ hpc' = [hpc EXCEPT ![h] = "done"]
  /\ UNCHANGED <<body, texts, polls, tVars, pVars, cVars, clientVars,
                 extractVars, poolVars, textVars, managerVars>>

\* a variant of WaitEmpty under which the loop's clock never advances
WaitEmptyNoClock(h) ==
  /\ hpc[h] = "get"
  /\ result_queue[h] = <<>>
  /\ hpc' = [hpc EXCEPT ![h] = "wait"]
  /\ UNCHANGED <<body, texts, polls, result_queue, responses, tVars, pVars, cVars,
                 clientVars, extractVars, poolVars, textVars, managerVars>>

\* _wait_for_result, lines 240-241: queue.Empty after 0.5 s
WaitEmpty(h) ==
  /\ hpc[h] = "get"
  /\ result_queue[h] = <<>>
  /\ polls' = [polls EXCEPT ![h] = @ + 1]
  /\ hpc' = [hpc EXCEPT ![h] = "wait"]
  /\ UNCHANGED <<body, texts, result_queue, responses, tVars, pVars, cVars,
                 clientVars, extractVars, poolVars, textVars, managerVars>>

\* a variant of Put for a result_queue that is one attribute of the class
PutShared(h, result) ==
  /\ result_queue' = [result_queue EXCEPT ![1] = Append(@, result)]
  /\ posted' = [posted EXCEPT ![h] = Append(@, result)]

\* self.result_queue.put(result)
Put(h, result) ==
  /\ result_queue' = [result_queue EXCEPT ![h] = Append(@, result)]
  /\ posted' = [posted EXCEPT ![h] = Append(@, result)]

\* a worker of the task's pool takes it from the pool's queue and runs
\* _process_translation_request up to line 168
TaskStart(h) ==
  /\ tpc[h] = "queued"
  /\ Cardinality(Running(tpool[h])) < pools[tpool[h]].max
  /\ IF is_shutting_down
     THEN /\ Put(h, FailResult(ServerMsg.shutdown))
          /\ tpc' = [tpc EXCEPT ![h] = "done"]
     ELSE /\ tpc' = [tpc EXCEPT ![h] = "running"]
          /\ UNCHANGED <<result_queue, posted>>
  /\ UNCHANGED <<hpc, body, texts, polls, responses, tpool, tres, pVars, cVars,
                 clientVars, extractVars, poolVars, textVars, managerVars>>

\* a variant of Process that posts nothing for a failed translation
ProcessDropping(result, n, shutting) ==
  IF ~result.success THEN [do |-> "drop", result |-> FailResult("")]
  ELSE IF Len(result.translations) # n
  THEN [do |-> "put", result |-> FailResult(ServerMsg.mismatch)]
  ELSE IF shutting \/ result.usage = "malformed" THEN [do |-> "drop", result |-> FailResult("")]
  ELSE [do |-> "hold",
        result |-> OkResult([i \in 1..n |-> convert_punctuation(result.translations[i])],
                            result.usage)]

\* what lines 176-206 and 215-221 do with translate_batch's result:
\* put (a result to post at once), hold (a success that passed the check of
\* line 204, posted by line 210) or drop (nothing is posted)
Process(result, n, shutting) ==
  IF ~result.success
  THEN [do |-> "put",
        result |-> FailResult(IF result.text # "" THEN result.text ELSE ServerMsg.default)]
  ELSE IF Len(result.translations) # n
  THEN [do |-> "put", result |-> FailResult(ServerMsg.mismatch)]
  ELSE IF result.usage = "malformed"
  \* usage.get raises at line 195; lines 215-221
  THEN IF shutting THEN [do |-> "drop", result |-> FailResult("")]
       ELSE [do |-> "put", result |-> FailResult(ServerMsg.exception)]
  ELSE IF shutting THEN [do |-> "drop", result |-> FailResult("")]
  ELSE [do |-> "hold",
        result |-> OkResult([i \in 1..n |-> convert_punctuation(result.translations[i])],
                            result.usage)]

\* _process_translation_request, lines 170-206: translate_batch returns
TaskCall(h) ==
  /\ tpc[h] = "running"
  /\ \E result \in BatchResults[Len(texts[h])] :
       LET p == Process(result, Len(texts[h]), is_shutting_down) IN
       /\ IF p.do = "put" THEN Put(h, p.result) ELSE UNCHANGED <<result_queue, posted>>
       /\ tpc' = [tpc EXCEPT ![h] = IF p.do = "hold" THEN "put" ELSE "done"]
       /\ tres' = [tres EXCEPT ![h] = IF p.do = "hold" THEN p.result ELSE @]
  /\ UNCHANGED <<hpc, body, texts, polls, responses, tpool, pVars, cVars,
                 clientVars, extractVars, poolVars, textVars, managerVars>>

\* _process_translation_request, lines 210-214
TaskPut(h) ==
  /\ tpc[h] = "put"
  /\ Put(h, tres[h])
  /\ tpc' = [tpc EXCEPT ![h] = "done"]
  /\ UNCHANGED <<hpc, body, texts, polls, responses, tpool, tres, pVars, cVars,
                 clientVars, extractVars, poolVars, textVars, managerVars>>

\* ServerManager.start, from toggle_server: a bad or occupied port fails
Start ==
  /\ cpc = "idle"
  /\ ~is_running
  /\ toggles < MaxToggles
  /\ \E port_ok \in BOOLEAN :
       /\ is_running' = port_ok
       /\ server' = port_ok
       /\ toggles' = IF port_ok THEN toggles + 1 ELSE toggles
  /\ UNCHANGED <<hVars, tVars, pVars, is_shutting_down, cpc, cctx, waitingAtStop,
                 waitingAtFlag, clientVars, extractVars, poolVars, textVars, managerVars>>

\* ServerManager.stop, from toggle_server, up to the call of close_resources
StopBegin ==
  /\ cpc = "idle"
  /\ is_running /\ server
  /\ toggles < MaxToggles
  /\ toggles' = toggles + 1
  /\ cpc' = "c1"
  /\ cctx' = "toggle"
  /\ waitingAtStop' = waitingAtStop \cup Waiting
  /\ UNCHANGED <<hVars, tVars, pVars, is_shutting_down, is_running, server,
                 waitingAtFlag, clientVars, extractVars, poolVars, textVars, managerVars>>

\* App.on_close, line 259, and _background_shutdown up to the first
\* close_resources: through stop() when the server runs
OnClose ==
  /\ cpc = "idle"
  /\ ~is_shutting_down
  /\ is_shutting_down' = TRUE
  /\ waitingAtFlag' = Waiting
  /\ waitingAtStop' = IF is_running /\ server THEN waitingAtStop \cup Waiting
                      ELSE waitingAtStop
  /\ cpc' = "c1"
  /\ cctx' = IF is_running /\ server THEN "close_stop" ELSE "close_final"
  /\ UNCHANGED <<hVars, tVars, pVars, is_running, server, toggles, clientVars,
                 extractVars, poolVars, textVars, managerVars>>

\* close_resources, line 53: executor.shutdown(wait=False); with no pool
\* (line 50) there is nothing to close
CloseShutdown ==
  /\ cpc = "c1"
  /\ IF executor = 0
     THEN /\ cpc' = "after"
          /\ UNCHANGED pools
     ELSE /\ pools' = [pools EXCEPT ![executor].shut = TRUE]
          /\ cpc' = "c2"
  /\ UNCHANGED <<hVars, tVars, executor, is_shutting_down, is_running, server,
                 cctx, toggles, waitingAtStop, waitingAtFlag, clientVars,
                 extractVars, poolVars, textVars, managerVars>>

\* close_resources, line 55: a pool of one worker replaces it
CloseReplace ==
  /\ cpc = "c2"
  /\ pools' = Append(pools, [max |-> close_workers, shut |-> FALSE])
  /\ executor' = Len(pools) + 1
  /\ cpc' = "c3"
  /\ UNCHANGED <<hVars, tVars, is_shutting_down, is_running, server, cctx,
                 toggles, waitingAtStop, waitingAtFlag, clientVars, extractVars,
                 poolVars, textVars, managerVars>>

\* close_resources, lines 59-68: the replacement pool is shut down by a
\* helper thread, which the caller joins for at most 2 s
CloseDrain ==
  /\ cpc = "c3"
  /\ pools' = [pools EXCEPT ![executor].shut = TRUE]
  /\ cpc' = "c4"
  /\ UNCHANGED <<hVars, tVars, executor, is_shutting_down, is_running, server,
                 cctx, toggles, waitingAtStop, waitingAtFlag, clientVars,
                 extractVars, poolVars, textVars, managerVars>>

\* close_resources, line 75: executor = None
CloseClear ==
  /\ cpc = "c4"
  /\ executor' = 0
  /\ cpc' = "after"
  /\ UNCHANGED <<hVars, tVars, pools, is_shutting_down, is_running, server,
                 cctx, toggles, waitingAtStop, waitingAtFlag, clientVars,
                 extractVars, poolVars, textVars, managerVars>>

\* ServerManager.stop, lines 367-385: the server stops accepting; after it
\* _background_shutdown calls close_resources once more (line 285)
StopFinish ==
  /\ cpc = "after"
  /\ cctx \in {"toggle", "close_stop"}
  /\ server' = FALSE
  /\ is_running' = FALSE
  /\ cpc' = IF cctx = "toggle" THEN "idle" ELSE "c1"
  /\ cctx' = IF cctx = "toggle" THEN "toggle" ELSE "close_final"
  /\ UNCHANGED <<hVars, tVars, pVars, is_shutting_down, toggles, waitingAtStop,
                 waitingAtFlag, clientVars, extractVars, poolVars, textVars, managerVars>>

\* _background_shutdown is over
CloseDone ==
  /\ cpc = "after"
  /\ cctx = "close_final"
  /\ cpc' = "closed"
  /\ UNCHANGED <<hVars, tVars, pVars, is_shutting_down, is_running, server,
                 cctx, toggles, waitingAtStop, waitingAtFlag, clientVars,
                 extractVars, poolVars, textVars, managerVars>>

\* the steps of a handler's thread once its request is read
HandlerRun(h) ==
  SubmitCheck(h) \/ SubmitCall(h) \/ WaitCheck(h) \/ WaitGet(h) \/ WaitEmpty(h)

Init == ServerInit /\ ClientIdle /\ ExtractIdle /\ PoolIdle /\ TextIdle /\ ManagerIdle

Next ==
  \/ \E h \in Active : Post(h)
  \/ \E h \in Active : SubmitCheck(h)
  \/ \E h \in Active : SubmitCall(h)
  \/ \E h \in Active : WaitCheck(h)
  \/ \E h \in Active : WaitGet(h)
  \/ \E h \in Active : WaitEmpty(h)
  \/ \E h \in Active : TaskStart(h)
  \/ \E h \in Active : TaskCall(h)
  \/ \E h \in Active : TaskPut(h)
  \/ Start
  \/ StopBegin
  \/ OnClose
  \/ CloseShutdown
  \/ CloseReplace
  \/ CloseDrain
  \/ CloseClear
  \/ StopFinish
  \/ CloseDone

Spec == Init /\ [][Next]_vars

\* a handler's thread keeps running: every wait of it is bounded (the 0.5 s
\* of queue.get, the 180 s of the loop)
FairSpec == Spec /\ \A h \in Active : WF_vars(HandlerRun(h))

(***************************************************************************)
(* core/server.py: the pools by numbers of tasks, for more requests than a  *)
(* pool has workers.                                                         *)
(***************************************************************************)
\* do_POST up to line 126, with a body that is accepted
PoolPost ==
  /\ server
  /\ served < MaxRequests
  /\ served' = served + 1
  /\ arrived' = arrived + 1
  /\ UNCHANGED <<checked, backlog, inflight, serverVars, clientVars, extractVars, textVars, managerVars>>

\* _submit_translation, lines 224-225
PoolSubmitCheck ==
  /\ arrived > 0
  /\ arrived' = arrived - 1
  /\ checked' = checked + 1
  /\ IF executor = 0
     THEN /\ pools' = Append(pools, [max |-> max_workers, shut |-> FALSE])
          /\ executor' = Len(pools) + 1
     ELSE UNCHANGED pVars
  /\ UNCHANGED <<backlog, inflight, served, hVars, tVars, cVars, clientVars,
                 extractVars, textVars, managerVars>>

\* _submit_translation, line 227: refused by no pool or by a pool shut down
PoolSubmitCall ==
  /\ checked > 0
  /\ checked' = checked - 1
  /\ IF executor = 0 \/ pools[executor].shut
     THEN UNCHANGED backlog
     ELSE backlog' = [backlog EXCEPT ![executor] = @ + 1]
  /\ UNCHANGED <<arrived, inflight, served, serverVars, clientVars, extractVars, textVars, managerVars>>

\* a worker of pool p takes a task from the pool's queue: line 160 ends it
\* when the application is closing, else it goes on to translate_batch
PoolTaskStart(p) ==
  /\ p <= Len(pools)
  /\ backlog[p] > 0
  /\ inflight[p] < pools[p].max
  /\ backlog' = [backlog EXCEPT ![p] = @ - 1]
  /\ inflight' = [inflight EXCEPT ![p] = IF is_shutting_down THEN @ ELSE @ + 1]
  /\ UNCHANGED <<arrived, checked, served, serverVars, clientVars, extractVars, textVars, managerVars>>

\* _process_translation_request returns
PoolTaskEnd(p) ==
  /\ inflight[p] > 0
  /\ inflight' = [inflight EXCEPT ![p] = @ - 1]
  /\ UNCHANGED <<arrived, checked, backlog, served, serverVars, clientVars,
                 extractVars, textVars, managerVars>>

PoolNext ==
  \/ PoolPost
  \/ PoolSubmitCheck
  \/ PoolSubmitCall
  \/ \E p \in PoolIds : PoolTaskStart(p)
  \/ \E p \in PoolIds : PoolTaskEnd(p)
  \/ Start
  \/ StopBegin
  \/ OnClose
  \/ CloseShutdown
  \/ CloseReplace
  \/ CloseDrain
  \/ CloseClear
  \/ StopFinish
  \/ CloseDone

PoolSpec == Init /\ [][PoolNext]_vars

\* translations in flight
RECURSIVE SumTo(_, _)
SumTo(f, n) == IF n = 0 THEN 0 ELSE f[n] + SumTo(f, n - 1)
InFlight == SumTo(inflight, Len(pools))


(***************************************************************************)
(* core/server.py: two requests at once.  ThreadedHTTPServer gives each     *)
(* connection a TranslationHandler of its own (line 44: its own             *)
(* result_queue); the first request carries one text or no object, the      *)
(* second two texts, and either client may have gone when the answer is     *)
(* written.                                                                 *)
(* The server is started once and runs until the window is closed.          *)
(***************************************************************************)
PairBodies ==
  <<{BodyOf(<<"[", QUOTE, "a", QUOTE, "]">>), <<"[", "1", "]">>},
    {BodyOf(<<"[", QUOTE, "a", QUOTE, ",", "2", "]">>)}>>

\* do_POST up to line 126 on the request of connection h.  A Content-Length
\* that is no number makes int() raise at line 98, before the body is read;
\* line 151 answers it
PairPost(h) ==
  \/ /\ Post(h)
     /\ body'[h] \in PairBodies[h]
  \/ /\ hpc[h] = "idle"
     /\ server
     /\ \A g \in Handlers : g < h => hpc[g] # "idle"
     /\ hpc' = [hpc EXCEPT ![h] = "done"]
     /\ responses' = [responses EXCEPT ![h] = Append(@, Plain(500, ServerMsg.server_error))]
     /\ UNCHANGED <<body, texts, polls, result_queue, tVars, pVars, cVars,
                    clientVars, extractVars, poolVars, textVars, managerVars>>

\* do_POST, lines 135, 148 and 151-154: the client has closed connection h,
\* so that writing the response to the result or to the end of the wait
\* raises; line 151 catches that, its own write at line 154 raises again,
\* and this exception leaves do_POST ("raised") with nothing answered
WriteFails(h) ==
  /\ \/ hpc[h] = "get" /\ result_queue[h] # <<>>
     \/ hpc[h] = "wait" /\ (polls[h] >= MaxPolls \/ is_shutting_down)
  /\ result_queue' = [result_queue EXCEPT ![h] = IF hpc[h] = "get" THEN Tail(@) ELSE @]
  /\ hpc' = [hpc EXCEPT ![h] = "raised"]
  /\ UNCHANGED <<body, texts, polls, responses, tVars, pVars, cVars, clientVars,
                 extractVars, poolVars, textVars, managerVars>>

PairNext ==
  \/ \E h \in DOMAIN PairBodies : PairPost(h)
  \/ \E h \in DOMAIN PairBodies : SubmitCheck(h)
  \/ \E h \in DOMAIN PairBodies : SubmitCall(h)
  \/ \E h \in DOMAIN PairBodies : WaitCheck(h)
  \/ \E h \in DOMAIN PairBodies : WaitGet(h)
  \/ \E h \in DOMAIN PairBodies : WaitEmpty(h)
  \/ \E h \in DOMAIN PairBodies : WriteFails(h)
  \/ \E h \in DOMAIN PairBodies : TaskStart(h)
  \/ \E h \in DOMAIN PairBodies : TaskCall(h)
  \/ \E h \in DOMAIN PairBodies : TaskPut(h)
  \/ Start
  \/ OnClose
  \/ CloseShutdown
  \/ CloseReplace
  \/ CloseDrain
  \/ CloseClear
  \/ StopFinish
  \/ CloseDone

PairSpec == Init /\ [][PairNext]_vars
(***************************************************************************)
(* core/server.py: ServerManager.start and ServerManager.stop called one    *)
(* after the other, each call whole, with no request in progress.  Here     *)
(* server says that ServerManager.server is set.                            *)
(***************************************************************************)
\* start() and stop() calls of one run
MaxManagerCalls == 3

\* int(self.config.get("port", 6800)), line 320; -1 when int() raises
PortOf(port) ==
  CASE port = "6800" -> 6800
    [] port = "0" -> 0
    [] port = "65536" -> 65536
    [] OTHER -> -1

\* ServerManager.start.  The port may be free or not (is_port_available);
\* the constructor of line 340 may still fail to bind, and the thread of
\* line 343 may fail to start, after server and server_thread were assigned
CallStart ==
  /\ Len(calls) < MaxManagerCalls
  /\ \E port \in {"6800", "abc", "0", "65536"}, free \in BOOLEAN,
        fault \in {"none", "bind", "thread"} :
       LET refused == \/ is_running
                      \/ PortOf(port) < 1 \/ PortOf(port) > 65535
                      \/ ~free
                      \/ fault = "bind"
           Entry(result, made) ==
             [call |-> "start", port |-> port, free |-> free, fault |-> fault,
              result |-> result, made |-> made]
       IN IF refused
          THEN /\ calls' = Append(calls, Entry(FALSE, FALSE))
               /\ UNCHANGED <<server, server_thread, is_running>>
          ELSE /\ server' = TRUE
               /\ server_thread' = TRUE
               /\ is_running' = (fault = "none")
               /\ calls' = Append(calls, Entry(fault = "none", TRUE))
  /\ UNCHANGED <<hVars, tVars, pVars, is_shutting_down, cpc, cctx, toggles,
                 waitingAtStop, waitingAtFlag, clientVars, extractVars, poolVars,
                 textVars>>

\* a variant of CallStop without the handler of lines 386-394
CallStopNoCleanup ==
  /\ Len(calls) < MaxManagerCalls
  /\ \E fault \in {"none", "close"} :
       LET Entry(result) ==
             [call |-> "stop", port |-> "", free |-> TRUE, fault |-> fault,
              result |-> result, made |-> FALSE]
       IN IF ~is_running \/ ~server
          THEN /\ calls' = Append(calls, Entry(FALSE))
               /\ UNCHANGED <<server, server_thread, is_running, pVars>>
          ELSE /\ IF executor = 0 THEN UNCHANGED pVars
                  ELSE /\ pools' = Append([pools EXCEPT ![executor].shut = TRUE],
                                          [max |-> close_workers, shut |-> TRUE])
                       /\ executor' = 0
               /\ server' = (fault = "close")
               /\ server_thread' = (fault = "close")
               /\ is_running' = (fault = "close")
               /\ calls' = Append(calls, Entry(fault = "none"))
  /\ UNCHANGED <<hVars, tVars, is_shutting_down, cpc, cctx, toggles,
                 waitingAtStop, waitingAtFlag, clientVars, extractVars, poolVars,
                 textVars>>

\* ServerManager.stop.  close_resources (line 363) shuts the pool down,
\* replaces it by a pool of one worker, shuts that down and clears executor;
\* server_close of line 369 may raise, which lines 386-394 handle
CallStop ==
  /\ Len(calls) < MaxManagerCalls
  /\ \E fault \in {"none", "close"} :
       LET Entry(result) ==
             [call |-> "stop", port |-> "", free |-> TRUE, fault |-> fault,
              result |-> result, made |-> FALSE]
       IN IF ~is_running \/ ~server
          THEN /\ calls' = Append(calls, Entry(FALSE))
               /\ UNCHANGED <<server, server_thread, is_running, pVars>>
          ELSE /\ IF executor = 0 THEN UNCHANGED pVars
                  ELSE /\ pools' = Append([pools EXCEPT ![executor].shut = TRUE],
                                          [max |-> close_workers, shut |-> TRUE])
                       /\ executor' = 0
               /\ server' = FALSE
               /\ server_thread' = FALSE
               /\ is_running' = FALSE
               /\ calls' = Append(calls, Entry(TRUE))
  /\ UNCHANGED <<hVars, tVars, is_shutting_down, cpc, cctx, toggles,
                 waitingAtStop, waitingAtFlag, clientVars, extractVars, poolVars,
                 textVars>>

ManagerSpec == Init /\ [][CallStart \/ CallStop]_vars

(***************************************************************************)
(* The properties.                                                            *)
(***************************************************************************)
\* C1: whenever translate_batch succeeds on N >= 1 texts, and whenever the
\* task posts a success or the handler answers 200, the translations are
\* exactly N, and the i-th is what sanitizing, limiting and punctuation
\* conversion make of the i-th item extracted from the provider's reply.
C1_SuccessHasRequestLength ==
  /\ \A n \in 1..MaxTexts : \A result \in BatchResults[n] :
       result.success => Len(result.translations) = n
  /\ \A h \in Handlers : \A k \in 1..Len(posted[h]) :
       posted[h][k].success =>
         /\ Len(texts[h]) >= 1
         /\ Len(posted[h][k].translations) = Len(texts[h])
         /\ \E content \in Replies :
              LET e == _extract_batch_translations(content, Len(texts[h])) IN
              /\ e.some
              /\ Len(e.list) = Len(texts[h])
              /\ \A i \in 1..Len(texts[h]) :
                   posted[h][k].translations[i] =
                     convert_punctuation(normalize_text(_sanitize_chat_response(e.list[i])))
  /\ \A h \in Handlers : \A k \in 1..Len(responses[h]) :
       responses[h][k].status = 200 =>
         /\ Len(texts[h]) >= 1
         /\ Len(responses[h][k].translations) = Len(texts[h])

\* a request of two texts was answered 200 with two translations
C1_Witness ==
  \E h \in Handlers :
    /\ Len(texts[h]) = 2
    /\ responses[h] # <<>>
    /\ responses[h][1].status = 200
    /\ Len(responses[h][1].translations) = 2

\* C2: a request whose body is not a JSON object with a non-empty texts array
\* is answered with 400 and a plain-text reason, and no task is submitted
\* for it.
C2_BadBodyAnswered400 ==
  \A h \in Handlers :
    hpc[h] # "idle" =>
      LET payload == json_loads(body[h])
          acceptable ==
            /\ body[h] # <<>>
            /\ payload.ok
            /\ payload.v.t = "obj"
            /\ dict_get(payload.v, Texts).found
            /\ dict_get(payload.v, Texts).v.t = "arr"
            /\ dict_get(payload.v, Texts).v.items # <<>>
      IN ~acceptable =>
           /\ hpc[h] = "done"
           /\ tpc[h] = "none"
           /\ Len(responses[h]) = 1
           /\ responses[h][1].status = 400
           /\ responses[h][1].kind = "plain"

\* C3: the handler that takes a result from its queue answers 200 with the
\* result's translations exactly when the result is a success, with usage in
\* the body only for non-empty counters, and else 500 with the failure text
\* the task posted.
C3_ResponseFollowsResult ==
  [][\A h \in Handlers :
       (hpc[h] = "get" /\ hpc'[h] = "done") =>
         LET result == Head(result_queue[h])
             response == responses'[h][Len(responses'[h])] IN
         /\ result = posted[h][Len(posted[h]) - Len(result_queue[h]) + 1]
         /\ (response.status = 200) <=> result.success
         /\ result.success =>
              response = Json(result.translations,
                              IF result.usage = "counters" THEN "counters" ELSE "none")
         /\ ~result.success => response = Plain(500, result.error)]_vars

\* a success without usage was answered 200 without usage
C3_Witness ==
  \E h \in Handlers :
    /\ hpc[h] = "done"
    /\ posted[h] # <<>>
    /\ posted[h][1].success
    /\ posted[h][1].usage = "empty"
    /\ responses[h] = <<Json(posted[h][1].translations, "none")>>

\* C4: a handler that was waiting, its slot empty, when the shutdown flag was
\* set answers 500 with the shutdown message, whatever the worker of its
\* request does meanwhile.
C4_WaitingAtFlagGetsShutdown ==
  \A h \in waitingAtFlag :
    hpc[h] = "done" => responses[h] = <<Plain(500, ServerMsg.shutdown)>>

\* C5: under fair scheduling of the handler's thread, every request that was
\* read gets a response; no connection gets two; and a handler whose wait
\* reached the ceiling answers 500 with the processing-timeout message,
\* whether or not its task ever posted.
C5_EveryRequestAnswered ==
  /\ [](\A h \in Handlers :
          /\ Len(responses[h]) <= 1
          /\ (hpc[h] = "done") <=> (Len(responses[h]) = 1))
  /\ \A h \in Handlers :
       (hpc[h] \in {"submit1", "submit2", "wait", "get"}) ~> (hpc[h] = "done")
  /\ [][\A h \in Handlers :
          (hpc[h] = "wait" /\ polls[h] >= MaxPolls /\ hpc'[h] # hpc[h]) =>
            /\ hpc'[h] = "done"
            /\ responses'[h] = <<Plain(500, ServerMsg.timeout)>>]_vars

\* a handler answered with the timeout while its task had posted nothing
C5_Witness ==
  \E h \in Handlers :
    /\ hpc[h] = "done"
    /\ posted[h] = <<>>
    /\ tpc[h] # "none"
    /\ responses[h] = <<Plain(500, ServerMsg.timeout)>>

\* C6 as stated: with the URL, the key or the model name missing or empty,
\* every operation fails without an HTTP request.
C6_EveryOperationRefused ==
  (/\ op # "none"
   /\ (config.api_url # "set" \/ config.api_key # "set" \/ config.model_name # "set"))
    => (~outcome.success /\ outcome.calls = 0)

\* C6, amended: with the URL or the key missing or empty, translate_batch on
\* a non-empty batch, test_connection and get_model_list fail with a
\* configuration error and issue no HTTP request; with only the model name
\* missing, translate_batch and test_connection do so, while get_model_list
\* asks the provider; translate_batch on an empty batch succeeds without a
\* request whatever the configuration.
C6_MissingSettingFailsFast ==
  LET no_url_or_key == config.api_url # "set" \/ config.api_key # "set"
      no_setting == no_url_or_key \/ config.model_name # "set"
      refused ==
        /\ ~outcome.success
        /\ outcome.calls = 0
        /\ outcome.message \in {TranslateMsg.config, TestMsg.url, TestMsg.key, TestMsg.model,
                                ListMsg.url, ListMsg.key}
  IN /\ (op = "translate_batch" /\ request # <<>> /\ no_setting) => refused
     /\ (op = "translate_batch" /\ request = <<>>) =>
          (outcome.success /\ outcome.calls = 0)
     /\ (op = "test_connection" /\ no_setting) => refused
     /\ (op = "get_model_list" /\ no_url_or_key) => refused
     /\ (op = "get_model_list" /\ ~no_url_or_key) => outcome.calls >= 1

\* translate_batch was refused for an empty key
C6_Witness ==
  /\ op = "translate_batch"
  /\ request # <<>>
  /\ config.api_url = "set" /\ config.api_key = "empty" /\ config.model_name = "set"
  /\ ~outcome.success
  /\ outcome.calls = 0
  /\ http_calls = 0

\* C7 as stated: for a reply that holds an array of 3 elements, extraction
\* with expected_count 2 returns None.
C7_ThreeForTwoIsNone ==
  (estage # "new" /\ elements = 3 /\ expected_count = 2) => ~extracted.some

\* C7, amended: for a reply that holds an array of 3 elements, extraction with
\* expected_count 2 returns None, and translate_batch the parse failure,
\* unless the reply, its fence removed, has exactly two non-blank lines; then
\* it returns those two lines, cleaned.  It never returns two of the three
\* elements.
C7_ThreeForTwoIsNoneOrTwoLines ==
  (estage # "new" /\ elements = 3 /\ expected_count = 2) =>
    LET cleaned == _strip_code_fences(strip(raw_content))
        lines == SelectNonBlank(splitlines(cleaned)) IN
    /\ extracted.some <=> Len(lines) = 2
    /\ extracted.some =>
         /\ extracted.list = <<CleanLine(lines[1]), CleanLine(lines[2])>>
         /\ \A i \in 1..Len(extracted.list) :
              extracted.list[i] \notin {<<"a">>, <<"b">>, <<"c">>}
    /\ (estage = "reported" /\ ~extracted.some) =>
         (~report.success /\ report.text = TranslateMsg.extract)
    /\ (estage = "reported" /\ extracted.some) => report.success

\* an array of 3 elements on one line led to the parse failure
C7_Witness ==
  /\ estage = "reported"
  /\ elements = 3
  /\ expected_count = 2
  /\ ~(\E i \in 1..Len(raw_content) : raw_content[i] = NL)
  /\ ~extracted.some
  /\ report.text = TranslateMsg.extract

\* C8: at most max_workers translations are in flight.
C8_AtMostFiveInFlight == InFlight <= max_workers

\* C9: while a stop is in effect (close_resources has shut the pool down on
\* behalf of ServerManager.stop, or the server is stopped) no handler's
\* submission is accepted by a pool.
C9_NoTaskAfterStop ==
  [][(\/ ~is_running
      \/ (cpc \in {"c2", "c3", "c4", "after"} /\ cctx \in {"toggle", "close_stop"}))
       => \A h \in Handlers : (tpc[h] = "none" => tpc'[h] = "none")]_vars

\* C10: a handler that was waiting, its slot empty, when ServerManager.stop
\* began answers 500 with the shutdown message.
C10_WaitingAtStopGetsShutdown ==
  \A h \in waitingAtStop :
    hpc[h] = "done" => responses[h] = <<Plain(500, ServerMsg.shutdown)>>

\* a body that is JSON but no object was answered 500
C2_Witness ==
  \E h \in Handlers :
    /\ body[h] = <<"[", "1", "]">>
    /\ responses[h] = <<Plain(500, ServerMsg.server_error)>>

\* a handler waiting when the flag was set answered 200 with translations
C4_Witness ==
  \E h \in waitingAtFlag :
    /\ hpc[h] = "done"
    /\ responses[h][1].status = 200

\* six translations are in flight
C8_Witness == InFlight = max_workers + 1

\* after one start and one stop, a task runs on the pool a handler created
\* once close_resources had cleared the executor
C9_Witness ==
  \E h \in Handlers :
    /\ toggles = 2
    /\ ~is_running
    /\ ~is_shutting_down
    /\ cpc = "idle"
    /\ tpool[h] = 3
    /\ tpc[h] = "running"

\* a handler waiting when the operator toggled the server off answered 200
C10_Witness ==
  \E h \in waitingAtStop :
    /\ ~is_shutting_down
    /\ hpc[h] = "done"
    /\ responses[h][1].status = 200


\* C11 as stated: the task of a request puts exactly one result into the
\* request's result_queue on every path, and the queue never holds more than
\* one item.
C11_ExactlyOnePut ==
  \A h \in Handlers :
    /\ Len(result_queue[h]) <= 1
    /\ Len(posted[h]) <= 1
    /\ tpc[h] = "done" => Len(posted[h]) = 1

\* C11, amended: the task of a request puts at most one result, the queue
\* never holds more than one item, the handler takes at most one item out of
\* it, and what it takes is what was put; a task that ended without putting
\* anything saw the shutdown flag set (lines 204-206 and 220).
C11_AtMostOnePut ==
  \A h \in Handlers :
    /\ Len(result_queue[h]) <= 1
    /\ Len(posted[h]) <= 1
    /\ result_queue[h] # <<>> => result_queue[h] = posted[h]
    /\ tpc[h] = "none" => posted[h] = <<>>
    /\ (tpc[h] = "done" /\ posted[h] = <<>>) => is_shutting_down
    /\ (hpc[h] # "done" /\ posted[h] # <<>>) => result_queue[h] = posted[h]

\* a task ended on the path of line 204 without a put, another state has a
\* result put once and taken once: here the first
C11_Witness ==
  \E h \in Handlers :
    /\ tpc[h] = "done"
    /\ posted[h] = <<>>
    /\ is_shutting_down
    /\ hpc[h] = "done"
    /\ responses[h] = <<Plain(500, ServerMsg.shutdown)>>

\* C12: with two requests in progress at once, what a handler answers from
\* its result_queue is the result the task of its own request put there: a
\* 200 carries as many translations as the handler's own request has texts,
\* and every queue holds only what its own task put.
C12_OwnResultOnly ==
  \A h \in DOMAIN PairBodies :
    /\ Len(result_queue[h]) <= Len(posted[h])
    /\ \A i \in 1..Len(result_queue[h]) :
         result_queue[h][i] = posted[h][Len(posted[h]) - Len(result_queue[h]) + i]
    /\ \A i \in 1..Len(posted[h]) :
         posted[h][i].success => Len(posted[h][i].translations) = Len(texts[h])
    /\ \A i \in 1..Len(responses[h]) :
         \/ responses[h][i] \in {Plain(500, ServerMsg.timeout),
                                 Plain(500, ServerMsg.shutdown),
                                 Plain(500, ServerMsg.server_error)}
         \/ /\ posted[h] # <<>>
            /\ responses[h][i] = Respond(posted[h][1])
            /\ responses[h][i].status = 200 =>
                 Len(responses[h][i].translations) = Len(texts[h])

\* the second request is answered 200 from its own task while the first
\* handler still waits for the task of the first request, which is running
C12_Witness ==
  /\ hpc[1] \in {"wait", "get"}
  /\ tpc[1] = "running"
  /\ result_queue[1] = <<>>
  /\ hpc[2] = "done"
  /\ posted[2] # <<>>
  /\ responses[2] = <<Respond(posted[2][1])>>
  /\ responses[2][1].status = 200
  /\ Len(responses[2][1].translations) = 2

\* C13: translate_batch answers each of the six upstream failure modes
\* (timeout, connection failure, status other than 200, body that is no JSON,
\* envelope without choices[0].message.content, extraction returning None)
\* with a failed result, and no other of the six modes gives the same result.
C13_FailureModesDistinct ==
  LET Mode(up, n) ==
        IF up.kind # "reply" THEN up.kind
        ELSE IF translate_batch(CompleteConfig, [i \in 1..n |-> <<"a">>], up).success
        THEN "ok" ELSE "extract"
      Six == {"timeout", "connection", "status", "not_json", "no_fields", "extract"}
      n == Len(request)
  IN (/\ op = "translate_batch"
      /\ request # <<>>
      /\ config = CompleteConfig
      /\ Mode(upstream, n) \in Six)
     => /\ ~outcome.success
        /\ outcome.message # ""
        /\ \A up2 \in Upstreams :
             (Mode(up2, n) \in Six /\ Mode(up2, n) # Mode(upstream, n))
               => translate_batch(config, request, up2).text # outcome.message

\* an envelope without the expected fields was answered with the text that a
\* body which is no JSON gets
C13_Witness ==
  /\ op = "translate_batch"
  /\ request # <<>>
  /\ config = CompleteConfig
  /\ upstream.kind = "no_fields"
  /\ ~outcome.success
  /\ outcome.message = TranslateMsg.envelope
  /\ outcome.message =
       translate_batch(config, request,
                       [kind |-> "not_json", content |-> <<>>, usage |-> "absent"]).text

\* C14: _sanitize_chat_response applied to its own result returns that
\* result.
C14_SanitizeIdempotent ==
  tstage = "sanitized" => twice = once

\* a text whose first sanitizing leaves an opening tag, put together from the
\* pieces around a removed span, which the second sanitizing removes
C14_Witness ==
  /\ tstage = "sanitized"
  /\ twice # once
  /\ \E i \in 1..Len(once) : MatchAt(once, i, Tags.think)

\* C15: normalize_text applied to its own result returns that result, and
\* the result has one character for each character of the text.
C15_NormalizeStable ==
  tstage = "normalized" =>
    /\ twice = once
    /\ Len(once) = Len(text)
    /\ \A i \in 1..Len(text) : once[i] = _normalize_char(text[i])

\* a text with a glyph that was replaced, a whitespace glyph that became a
\* blank and a glyph left unchanged for lack of a substitute
C15_Witness ==
  /\ tstage = "normalized"
  /\ text = <<"U+59B3", "U+3000", "U+2605">>
  /\ once = <<"U+4F60", " ", "U+2605">>
  /\ twice = once

\* C16 as stated: every character of normalize_text's result is an ASCII
\* character or a glyph of the allowed file.
C16_OutputAllowed ==
  tstage = "normalized" => \A i \in 1..Len(once) : base_allowed(once[i])

\* C16, amended: every character of the result is an ASCII character or a
\* glyph of the allowed file, or it is the character of the text at that place,
\* no whitespace, under none of whose keys an allowed glyph is indexed.
C16_OutputAllowedOrUnmatched ==
  tstage = "normalized" =>
    /\ Len(once) = Len(text)
    /\ \A i \in 1..Len(once) :
         \/ base_allowed(once[i])
         \/ /\ once[i] = text[i]
            /\ text[i] # "U+3000"
            /\ \A k \in 1..Len(_generate_pinyin_keys(text[i])) :
                 _pinyin_to_chars(_generate_pinyin_keys(text[i])[k]) = <<>>

\* a glyph without an allowed homophone comes out unchanged, beside a glyph
\* that was replaced by an allowed one
C16_Witness ==
  /\ tstage = "normalized"
  /\ text = <<"U+2605", "U+59B3">>
  /\ once = <<"U+2605", "U+4F60">>
  /\ ~base_allowed(once[1])
  /\ base_allowed(once[2])

\* C17: what _sanitize_chat_response returns holds no opening reasoning tag,
\* <think> or <thinking> in any letter case, and the text
\* <think>ignore me</think>Hello comes out as Hello.
C17_NoOpeningTagLeft ==
  LET Example ==
        Tags.think \o <<"i", "g", "n", "o", "r", "e", " ", "m", "e">> \o Tags.end_think
          \o <<"H", "e", "l", "l", "o">>
  IN tstage = "sanitized" =>
       /\ \A i \in 1..Len(once) :
            ~MatchAt(once, i, Tags.think) /\ ~MatchAt(once, i, Tags.thinking)
       /\ text = Example => once = <<"H", "e", "l", "l", "o">>

\* the pieces around a removed span have joined into an opening tag that
\* stands before the text of the reply
C17_Witness ==
  /\ tstage = "sanitized"
  /\ once = Tags.think \o <<"x">>
  /\ \E i \in 1..Len(text) : MatchAt(text, i, Tags.thinking)

C19_NeverRaises ==
  op # "none" =>
    /\ ~outcome.raised
    /\ ~outcome.success => outcome.message # ""
    /\ (/\ op = "get_model_list"
        /\ config.api_url = "set"
        /\ config.api_key = "set"
        /\ \A i \in 1..endpoints : upstream[i] # "models")
         => (~outcome.success /\ outcome.message = ListMsg.none)

\* get_model_list was called with a complete configuration, the first
\* endpoint answered 200 with JSON that is no mapping, and the exception of
\* lines 398-404 reached the caller
C19_Witness ==
  /\ op = "get_model_list"
  /\ config = CompleteConfig
  /\ upstream[1] = "raises"
  /\ outcome.raised
  /\ outcome.calls = 1

\* C20: _extract_batch_translations returns the result of the first of the
\* whole-text JSON, the embedded array and the line split that has exactly
\* expected_count items, a later one only when every earlier one gave no
\* list or a list of another length; what it returns has expected_count
\* items, and it returns nothing when none of the three has.
C20_FirstFittingStrategy ==
  LET Fits(r) == r.some /\ Len(r.list) = expected_count
      Decided(whole, embedded, lines) ==
        /\ extracted.some => Len(extracted.list) = expected_count
        /\ Fits(whole) => extracted = whole
        /\ (~Fits(whole) /\ Fits(embedded)) => extracted = embedded
        /\ (~Fits(whole) /\ ~Fits(embedded) /\ Fits(lines)) => extracted = lines
        /\ (~Fits(whole) /\ ~Fits(embedded) /\ ~Fits(lines)) => extracted = None
      Of(cleaned) == Decided(WholeJson(cleaned), EmbeddedJson(cleaned), Some(LineSplit(cleaned)))
  IN estage # "new" =>
       IF raw_content = <<>> THEN extracted = None
       ELSE Of(_strip_code_fences(strip(raw_content)))

\* the whole text was no JSON, the embedded array and the line split both had
\* expected_count items and differed, and the embedded array was returned
C20_Witness ==
  LET Fits(r) == r.some /\ Len(r.list) = expected_count
      Case(whole, embedded, lines) ==
        /\ ~whole.some
        /\ Fits(embedded)
        /\ Fits(lines)
        /\ embedded # lines
        /\ extracted = embedded
      Of(cleaned) == Case(WholeJson(cleaned), EmbeddedJson(cleaned), Some(LineSplit(cleaned)))
  IN estage # "new" /\ Of(_strip_code_fences(strip(raw_content)))

\* C21: the reasoning markup of a reply is removed before the array is
\* extracted: a reply made of a reasoning span followed by a JSON array of
\* expected_count items is extracted as that array, which is what extraction
\* makes of the sanitized reply, and translate_batch succeeds with it.
C21_ReasoningRemovedBeforeExtraction ==
  (/\ estage # "new"
   /\ startswith(raw_content, Tags.think)
   /\ elements = expected_count)
    => /\ extracted = _extract_batch_translations(_sanitize_chat_response(raw_content),
                                                  expected_count)
       /\ extracted = Some([i \in 1..elements |-> <<Items[i][2]>>])
       /\ estage = "reported" =>
            (report.success /\ report.translations = extracted.list)

\* a reasoning span holding brackets came before an array of two items on a
\* line of its own; with expected_count 2 the two lines of the raw reply were
\* extracted, and translate_batch succeeded with an empty first translation
\* and the text of the array as the second
C21_Witness ==
  /\ estage = "reported"
  /\ startswith(raw_content, Tags.think \o <<"[">>)
  /\ elements = 2
  /\ expected_count = 2
  /\ _extract_batch_translations(_sanitize_chat_response(raw_content), 2)
       = Some(<<<<"a">>, <<"b">>>>)
  /\ extracted.some
  /\ extracted.list[1] = Tags.think \o <<"[", "1", "]">> \o Tags.end_think
  /\ report.success
  /\ report.translations[1] = <<>>
  /\ Head(report.translations[2]) = "["

\* C22: for a text made of a JSON array of expected_count items followed by
\* further text that holds brackets, the whole text is no JSON and the
\* embedded-array strategy yields the items of that first array, which
\* _extract_batch_translations returns.
C22_FirstBalancedArray ==
  LET Embedded(cleaned) ==
        /\ ~WholeJson(cleaned).some
        /\ EmbeddedJson(cleaned) = Some([i \in 1..elements |-> <<Items[i][2]>>])
        /\ extracted = EmbeddedJson(cleaned)
  IN (/\ estage # "new"
      /\ Head(raw_content) = "["
      /\ endswith(raw_content, <<" ", "[", "x", "]">>)
      /\ elements = expected_count)
       => Embedded(_strip_code_fences(strip(raw_content)))

\* an array of two items on one line was followed by bracketed text; the
\* pattern of line 204 matched from the first bracket of the array to the
\* last bracket of the text, which is no JSON, and nothing was extracted
C22_Witness ==
  /\ estage = "reported"
  /\ Head(raw_content) = "["
  /\ endswith(raw_content, <<" ", "[", "x", "]">>)
  /\ elements = 2
  /\ expected_count = 2
  /\ array_match(raw_content) = raw_content
  /\ ~EmbeddedJson(raw_content).some
  /\ ~extracted.some
  /\ ~report.success

\* C23: when the whole cleaned reply is a JSON object with a single field,
\* whatever its name, that holds an array of expected_count items, or a
\* mapping of expected_count values, the whole-text strategy yields those
\* items, or those values in insertion order, and they are what
\* _extract_batch_translations returns.
C23_AnyFieldName ==
  LET Held(v) == IF v.t = "arr" THEN v.items ELSE dict_values(v)
      Single(parsed) ==
        /\ parsed.ok
        /\ parsed.v.t = "obj"
        /\ Len(parsed.v.keys) = 1
        /\ parsed.v.items[1].t \in {"arr", "obj"}
        /\ Len(Held(parsed.v.items[1])) = expected_count
      Taken(cleaned, parsed) ==
        Single(parsed) =>
          /\ WholeJson(cleaned) = Some(CleanAll(Held(parsed.v.items[1])))
          /\ extracted = WholeJson(cleaned)
      Of(cleaned) == Taken(cleaned, json_loads(cleaned))
  IN estage # "new" => Of(_strip_code_fences(strip(raw_content)))

\* the reply was an object whose single field, not called translations, held
\* a mapping of two values; with expected_count 2 the whole-text strategy had
\* no result, nothing was extracted and translate_batch reported the parse
\* failure, while the same mapping under translations gives its two values
C23_Witness ==
  LET parsed == json_loads(raw_content) IN
  /\ estage = "reported"
  /\ expected_count = 2
  /\ parsed.ok
  /\ parsed.v.t = "obj"
  /\ parsed.v.keys = <<<<"i", "t", "e", "m", "s">>>>
  /\ parsed.v.items[1].t = "obj"
  /\ dict_values(parsed.v.items[1]) = <<JStr(<<"a">>), JStr(<<"b">>)>>
  /\ ~WholeJson(raw_content).some
  /\ ~extracted.some
  /\ report.text = TranslateMsg.extract
  /\ WholeJson(<<"{", QUOTE>> \o Translations \o SubSeq(raw_content, 8, Len(raw_content)))
       = Some(<<<<"a">>, <<"b">>>>)

\* C24: _clean_translation_entry removes a leading number only when a
\* separator (one of . ) : or whitespace) follows it: a line that begins with
\* digits followed by another character is returned as it is, a line with a
\* separated number loses the number, the separator and the blanks after
\* them and nothing else, and the lines 1. a and 2. b with expected_count 2
\* are extracted as a and b.
C24_PrefixNeedsSeparator ==
  LET Separated(t, e) == e <= Len(t) /\ (t[e] \in {".", ")", ":"} \/ IsSpace(t[e]))
      Kept(t, out) ==
        /\ (t[1] \in Digits /\ digitsEnd(t, 1) <= Len(t) /\ ~Separated(t, digitsEnd(t, 1)))
             => out = t
        /\ (t[1] \in Digits /\ Separated(t, digitsEnd(t, 1)))
             => out = From(t, skipws(t, IF IsSpace(t[digitsEnd(t, 1)])
                                        THEN digitsEnd(t, 1) ELSE digitsEnd(t, 1) + 1))
      Lines(ls) == \A i \in 1..Len(ls) : Kept(strip(ls[i]), CleanLine(ls[i]))
  IN estage # "new" =>
       /\ Lines(SelectNonBlank(splitlines(_strip_code_fences(strip(raw_content)))))
       /\ (raw_content = <<"1", ".", " ", "a", NL, "2", ".", " ", "b">> /\ expected_count = 2)
            => extracted = Some(<<<<"a">>, <<"b">>>>)

\* the lines 3D and 2. b were extracted with expected_count 2: the first item
\* lost its digit although no separator follows it
C24_Witness ==
  /\ estage = "reported"
  /\ raw_content = <<"3", "D", NL, "2", ".", " ", "b">>
  /\ expected_count = 2
  /\ extracted = Some(<<<<"D">>, <<"b">>>>)
  /\ report.success
  /\ report.translations = <<<<"D">>, <<"b">>>>

\* C25: once a handler has given up waiting (timeout or shutdown) and has
\* written its response, a result its task puts later is discarded: the
\* connection gets no second response, nothing is ever taken out of its
\* result_queue, and the step that puts the late result changes neither the
\* queue nor the responses of the other request.
C25_LateResultDiscarded ==
  [][\A h \in DOMAIN PairBodies :
       (/\ responses[h] # <<>>
        /\ responses[h][1] \in {Plain(500, ServerMsg.timeout), Plain(500, ServerMsg.shutdown)})
         => /\ responses'[h] = responses[h]
            /\ Len(result_queue'[h]) >= Len(result_queue[h])
            /\ SubSeq(result_queue'[h], 1, Len(result_queue[h])) = result_queue[h]
            /\ result_queue'[h] # result_queue[h] =>
                 \A g \in DOMAIN PairBodies \ {h} :
                   responses'[g] = responses[g] /\ result_queue'[g] = result_queue[g]]_vars

\* the first handler answered the timeout before its task had put anything,
\* the task then put a successful result, which lies unread in the queue,
\* and the second request was answered 200 with its own two translations
C25_Witness ==
  /\ hpc[1] = "done"
  /\ responses[1] = <<Plain(500, ServerMsg.timeout)>>
  /\ tpc[1] = "done"
  /\ Len(posted[1]) = 1
  /\ posted[1][1].success
  /\ result_queue[1] = posted[1]
  /\ hpc[2] = "done"
  /\ posted[2] # <<>>
  /\ responses[2] = <<Respond(posted[2][1])>>
  /\ responses[2][1].status = 200
  /\ Len(responses[2][1].translations) = 2

\* C26: over any sequence of start() and stop() calls is_running holds only
\* while server and server_thread are set; start() while running returns
\* False and makes no second server; start() with a port that is invalid or
\* occupied returns False and leaves is_running false; stop() while not
\* running returns False and changes nothing; stop() while running returns
\* True with is_running false and server and server_thread cleared, also when
\* shutting the server down raised.
C26_Lifecycle ==
  [][calls' # calls =>
       LET e == calls'[Len(calls')] IN
       /\ is_running' => (server' /\ server_thread')
       /\ (e.call = "start" /\ is_running) =>
            (~e.result /\ ~e.made /\ UNCHANGED <<is_running, server, server_thread>>)
       /\ (e.call = "start" /\ ~is_running
             /\ (PortOf(e.port) < 1 \/ PortOf(e.port) > 65535 \/ ~e.free)) =>
            (~e.result /\ ~is_running')
       /\ (e.call = "start" /\ e.result) => (is_running' /\ e.made)
       /\ (e.call = "stop" /\ ~is_running) =>
            (~e.result /\ UNCHANGED <<is_running, server, server_thread, pVars>>)
       /\ (e.call = "stop" /\ is_running) =>
            (e.result /\ ~is_running' /\ ~server' /\ ~server_thread')]_vars

\* start() succeeded, a second start() was refused, and the stop() whose
\* server_close raised left the manager stopped and returned True
C26_Witness ==
  /\ Len(calls) = 3
  /\ calls[1].call = "start" /\ calls[1].result
  /\ calls[2].call = "start" /\ ~calls[2].result /\ ~calls[2].made
  /\ calls[2].port = "6800" /\ calls[2].free
  /\ calls[3].call = "stop" /\ calls[3].fault = "close" /\ calls[3].result
  /\ ~is_running
  /\ ~server
  /\ ~server_thread
  /\ executor = 0
====
